---------------------------- MODULE Spec2Model ----------------------------
(***************************************************************************)
(* BSV Quantum Vault: the WOTS-16 signer, the script synthesizer, the      *)
(* stack machine that runs the emitted scripts, and the vault lifecycle    *)
(* (create / restore / sweep) of winternitz.js and the two servers.        *)
(*                                                                         *)
(* Byte strings are modelled symbolically.  A value is a 4-tuple           *)
(*      <<tag, a, b, depth>>                                               *)
(* naming a base object (tag, a, b) and the number of times SHA-256 has    *)
(* been applied to it (depth).  SHA-256 is therefore an injective hash     *)
(* chain: sha256 adds one to the depth and nothing else reaches the same   *)
(* value.  Tags: 0 script number a, 1 WOTS-16 scalar b of key a,           *)
(* 2 Winternitz-32 scalar b of key a, 3 concatenation of the sequence a,   *)
(* 4 signature, 5 public key, 7 foreign bytes that belong to no key,        *)
(* 8 signature-hash preimage of length b committing to the digest a.       *)
(***************************************************************************)
EXTENDS Integers, Sequences, FiniteSets, TLC

VARIABLES
    vm,              \* the stack machine evaluating a spend
    scriptSig,       \* the script of the spending input
    spendTx,         \* the spending transaction, as the script engine sees it
    pushedPairs,     \* the 68 (remaining, value) pairs the unlocking script pushes
    signedMessage,   \* the 32-byte message the pairs were signed for
    honest,          \* whether the pairs are exactly signWOTS16's chunks
    createdLevel,    \* securityLevel of the vault GET /api/create returned
    vaultUtxos,      \* values of the unspent outputs locked by the vault's script
    inflight,        \* the request a handler is serving, and how far it got
    signedDigests,   \* every digest signWOTS16 was given with the vault's scalars
    requestsMade,    \* requests received so far
    broadcast,       \* the call of broadcastTransaction that is followed provider by provider
    encoding,        \* the call of encodeLocktimeForScript that is followed, and its reading
    lockedVault      \* the vault createQuantumVault returned for a requested lock time

scriptVars == <<vm, scriptSig, spendTx, pushedPairs, signedMessage, honest>>
serverVars == <<createdLevel, vaultUtxos, inflight, signedDigests, requestsMade>>
callVars == <<broadcast, encoding, lockedVault>>
vars == <<scriptVars, serverVars, callVars>>

\* ------------------------------------------------------------------------
\* Program constants (winternitz.js)
\* ------------------------------------------------------------------------
CHUNKS == 32
MAX_ITERATIONS == 256
WOTS16_CHUNKS == 64
WOTS16_CHECKSUM_CHUNKS == 4
WOTS16_COMMIT_HASHES == 15
MESSAGE_BYTES == 32
\* CONFIG of both servers
FEE_RATE_STANDARD == 1
MIN_OUTPUT == 546
MIN_SWEEP == 2000
\* the least output buildWOTS16CovenantTransaction does not accept
CovenantMinOutput == 546
TX_VERSION == 1
\* Buffer.from([0xff, 0xff, 0xff, 0xff])
SEQUENCE_FINAL == <<255, 255, 255, 255>>
SIGHASH_ALL_FORKID == 65

OP_0 == 0
OP_PUSH1 == 1
OP_PUSH32 == 32
OP_PUSHDATA1 == 76
OP_PUSHDATA2 == 77
OP_PUSHDATA4 == 78
OP_1NEGATE == 79
OP_BASE == 80
OP_2 == 82
OP_4 == 84
OP_8 == 88
OP_16 == 96
OP_IF == 99
OP_ENDIF == 104
OP_DROP == 117
OP_DUP == 118
OP_SWAP == 124
OP_SIZE == 130
OP_EQUAL == 135
OP_EQUALVERIFY == 136
OP_DIV == 150
OP_MOD == 151
OP_SHA256 == 168
OP_CHECKSIGVERIFY == 173
OP_CHECKLOCKTIMEVERIFY == 177

\* ------------------------------------------------------------------------
\* Bounds of the model
\* ------------------------------------------------------------------------
\* how many base messages, varied byte positions and byte values are signed
NumBase == 2
NumVaryPos == 2
NumVaryByte == 2
\* how many chain depths a forged chunk value is drawn from, past depth 13
NumForgeDepth == 2
\* destinations, fee rates, funding wallets, unspent outputs and requests
NumDestinations == 2
MaxFeeRate == 2
NumFundingValues == 2
MaxUtxos == 2
MaxRequests == 3
NumTaalKeys == 2
NumLockTimeHi == 10
NumLockTimeLo == 11
NumLockTimes == 7
FundingValues == <<8000, 30000, 12000>>

\* ------------------------------------------------------------------------
\* Values and hashing
\* ------------------------------------------------------------------------
Num(n) == <<0, n, 0, 0>>
Scalar16(k, i) == <<1, k, i, 0>>
Scalar32(k, i) == <<2, k, i, 0>>
Concat(seq) == <<3, seq, 0, 0>>
Foreign(n) == <<7, n, 0, 0>>
NoData == Num(0)

Tag(v) == v[1]
IsNum(v) == v[1] = 0 /\ v[4] = 0
NumOf(v) == v[2]

\* Buffer.equals / OP_EQUAL: byte-wise equality.  The tags are compared
\* first because base objects of different tags are different byte strings.
BytesEqual(x, y) == IF x[1] = y[1] /\ x[4] = y[4] THEN x = y ELSE FALSE

sha256(data) == <<data[1], data[2], data[3], data[4] + 1>>

\* byte length of a value, as Buffer.length reports it
ByteLength(v) ==
    IF v[4] > 0 THEN 32
    ELSE IF v[1] = 0 THEN (IF v[2] = 0 THEN 0 ELSE 1)
    ELSE IF v[1] = 3 THEN 32 * Len(v[2])
    ELSE IF v[1] = 4 THEN 72
    ELSE IF v[1] = 5 THEN 33
    ELSE IF v[1] = 8 THEN v[3]
    ELSE 32

\* the loop of sha256 calls, split in halves to keep the evaluation shallow;
\* the length test has the argument computed before the halves are taken
RECURSIVE iteratedSha256(_, _)
iteratedSha256(data, iterations) ==
    IF iterations <= 0 \/ ByteLength(data) < 0 THEN data
    ELSE IF iterations = 1 THEN sha256(data)
    ELSE iteratedSha256(iteratedSha256(data, iterations \div 2),
                        iterations - (iterations \div 2))


\* ------------------------------------------------------------------------
\* WOTS-16 key generation and signing (winternitz.js)
\* ------------------------------------------------------------------------
TotalChunks == WOTS16_CHUNKS + WOTS16_CHECKSUM_CHUNKS

\* a key generation that hashes every scalar sixteen times
generateWOTS16KeypairSixteen(k) ==
    LET privateScalars == [i \in 1..TotalChunks |-> Scalar16(k, i)]
        publicCommitments ==
            [i \in 1..TotalChunks |-> iteratedSha256(privateScalars[i], 16)]
    IN  [privateScalars |-> privateScalars,
         publicCommitments |-> publicCommitments,
         publicKeyHash |-> sha256(Concat(publicCommitments))]
\* k names the randomness drawn by crypto.randomBytes: scalar i of draw k
generateWOTS16Keypair(k) ==
    LET privateScalars == [i \in 1..TotalChunks |-> Scalar16(k, i)]
        publicCommitments ==
            [i \in 1..TotalChunks |->
                iteratedSha256(privateScalars[i], WOTS16_COMMIT_HASHES)]
    IN  [privateScalars |-> privateScalars,
         publicCommitments |-> publicCommitments,
         publicKeyHash |-> sha256(Concat(publicCommitments))]

\* the nibbles of a byte taken low nibble first
MessageChunkLowFirst(message, c) ==
    LET byte == message[(c + 1) \div 2]
    IN  IF c % 2 = 1 THEN byte % 16 ELSE (byte \div 16) % 16
\* nibble c (1..64) of the message: high nibble of a byte first
MessageChunk(message, c) ==
    LET byte == message[(c + 1) \div 2]
    IN  IF c % 2 = 1 THEN (byte \div 16) % 16 ELSE byte % 16

\* a checksum that adds the nibbles themselves
RECURSIVE ChecksumUnscaled(_, _)
ChecksumUnscaled(message, c) ==
    IF c > WOTS16_CHUNKS THEN 0
    ELSE MessageChunk(message, c) + ChecksumUnscaled(message, c + 1)
RECURSIVE ChecksumFrom(_, _)
ChecksumFrom(message, c) ==
    IF c > WOTS16_CHUNKS THEN 0
    ELSE (15 - MessageChunk(message, c)) + ChecksumFrom(message, c + 1)

RECURSIVE ShiftRight4(_, _)
ShiftRight4(n, times) == IF times = 0 THEN n ELSE ShiftRight4(n \div 16, times - 1)

\* digits whose checksum is the sum of the nibbles, not of their complements
AllChunksReversedChecksum(message) ==
    LET checksum == ChecksumUnscaled(message, 1)
    IN  [i \in 1..TotalChunks |->
            IF i <= WOTS16_CHUNKS THEN MessageChunk(message, i)
            ELSE ShiftRight4(checksum, i - WOTS16_CHUNKS - 1) % 16]
\* digit i (1..68): 64 message nibbles, then 4 checksum nibbles, low first
AllChunks(message) ==
    LET checksum == ChecksumFrom(message, 1)
    IN  [i \in 1..TotalChunks |->
            IF i <= WOTS16_CHUNKS THEN MessageChunk(message, i)
            ELSE ShiftRight4(checksum, i - WOTS16_CHUNKS - 1) % 16]

\* a signer that hashes every scalar once more than its digit
signWOTS16OneHashMore(keypair, message) ==
    [chunks |->
        [i \in 1..TotalChunks |->
            [value |-> iteratedSha256(keypair.privateScalars[i],
                                      AllChunks(message)[i] + 1),
             iterations |-> AllChunks(message)[i],
             remaining |-> 15 - AllChunks(message)[i]]],
     message |-> message,
     messageChunks |-> AllChunks(message)]
signWOTS16(keypair, message) ==
    LET allChunks == AllChunks(message)
    IN  [chunks |->
            [i \in 1..TotalChunks |->
                [value |-> iteratedSha256(keypair.privateScalars[i], allChunks[i]),
                 iterations |-> allChunks[i],
                 remaining |-> 15 - allChunks[i]]],
         message |-> message,
         messageChunks |-> allChunks]

\* ------------------------------------------------------------------------
\* Script synthesis (winternitz.js).  A script is a sequence of
\* instructions <<opcode, data>>; data is NoData unless the opcode pushes.
\* ------------------------------------------------------------------------
Ins(op) == <<op, NoData>>
PushData(op, v) == <<op, v>>

\* hash the value under the remaining counter `times` times if the bit holds
HashBlock(times) ==
    <<Ins(OP_IF), Ins(OP_SWAP)>> \o [j \in 1..times |-> Ins(OP_SHA256)]
        \o <<Ins(OP_SWAP), Ins(OP_ENDIF)>>

Bit0Block == <<Ins(OP_DUP), Ins(OP_2), Ins(OP_MOD)>> \o HashBlock(1)
Bit1Block ==
    <<Ins(OP_DUP), Ins(OP_2), Ins(OP_DIV), Ins(OP_2), Ins(OP_MOD)>> \o HashBlock(2)
\* a third block that hashes twice instead of four times
Bit2BlockHashingTwice ==
    <<Ins(OP_DUP), Ins(OP_4), Ins(OP_DIV), Ins(OP_2), Ins(OP_MOD)>> \o HashBlock(2)
Bit2Block ==
    <<Ins(OP_DUP), Ins(OP_4), Ins(OP_DIV), Ins(OP_2), Ins(OP_MOD)>> \o HashBlock(4)
Bit3Block ==
    <<Ins(OP_DUP), Ins(OP_8), Ins(OP_DIV), Ins(OP_2), Ins(OP_MOD)>> \o HashBlock(8)

\* the binary-decomposition gadget of one chunk, from OP_SWAP to OP_DROP
ChunkGadget ==
    <<Ins(OP_SWAP)>> \o Bit0Block \o Bit1Block \o Bit2Block \o Bit3Block
        \o <<Ins(OP_DROP)>>

\* the combinator closing chunk i: EQUALVERIFY, or EQUAL on the last chunk
ChunkCombinator(i) == IF i < TotalChunks THEN OP_EQUALVERIFY ELSE OP_EQUAL

ChunkVerifier(i, commitment) ==
    ChunkGadget \o <<PushData(OP_PUSH32, commitment), Ins(ChunkCombinator(i))>>

ChunkLen == Len(ChunkGadget) + 2

\* A lock time is an unsigned 32-bit number, held as two 16-bit halves
\* hi * 65536 + lo so that the values from 2^31 on can be written.
\* The loop of encodeLocktimeForScript: bytes.push(n & 0xff); n >>= 8.  Both
\* operators take ToInt32(n), so a number of 2^31 or more is shifted as a
\* negative one and ends the loop while (n > 0).
RECURSIVE LocktimeLoop(_, _, _)
LocktimeLoop(hi, lo, bytes) ==
    IF hi = 0 /\ lo = 0 THEN bytes
    ELSE IF hi >= 32768 THEN Append(bytes, lo % 256)
    ELSE LocktimeLoop(hi \div 256, (hi % 256) * 256 + lo \div 256,
                      Append(bytes, lo % 256))

\* the bytes of the buffer encodeLocktimeForScript returns
encodeLocktimeBuffer(hi, lo) ==
    IF hi = 0 /\ lo <= 16 THEN <<OP_BASE + lo>>
    ELSE LET bytes == LocktimeLoop(hi, lo, <<>>)
             data == IF bytes[Len(bytes)] >= 128 THEN Append(bytes, 0) ELSE bytes
         IN  <<Len(data)>> \o data

\* the number the script engine reads from the bytes of a push: little
\* endian, the top bit of the last byte being the sign
ScriptNumByte(data, i) ==
    IF i > Len(data) THEN 0
    ELSE IF i = Len(data) THEN data[i] % 128
    ELSE data[i]
ReadScriptNum(data) ==
    [negative |-> Len(data) > 0 /\ data[Len(data)] >= 128,
     wide |-> Len(data) > 5 \/ ScriptNumByte(data, 5) # 0,
     hi |-> ScriptNumByte(data, 3) + 256 * ScriptNumByte(data, 4),
     lo |-> ScriptNumByte(data, 1) + 256 * ScriptNumByte(data, 2)]

\* what the script engine reads when it executes the buffer: the number of
\* OP_1 .. OP_16, or the number of a direct push
ReadLocktimeBuffer(buffer) ==
    IF buffer[1] > OP_BASE /\ buffer[1] <= OP_16
    THEN [isNumber |-> Len(buffer) = 1, negative |-> FALSE, wide |-> FALSE,
          hi |-> 0, lo |-> buffer[1] - OP_BASE]
    ELSE IF buffer[1] >= 1 /\ buffer[1] <= 75 /\ Len(buffer) = 1 + buffer[1]
    THEN [isNumber |-> TRUE] @@ ReadScriptNum(Tail(buffer))
    ELSE [isNumber |-> FALSE, negative |-> FALSE, wide |-> FALSE, hi |-> 0, lo |-> 0]

\* the instruction of the buffer, for lock times below 2^31
encodeLocktimeForScript(lockTime) ==
    LET buffer == encodeLocktimeBuffer(lockTime \div 65536, lockTime % 65536)
        read == ReadScriptNum(Tail(buffer))
    IN  IF Len(buffer) = 1 THEN Ins(buffer[1])
        ELSE PushData(buffer[1], Num(read.hi * 65536 + read.lo))

TimelockGuard(lockTime) ==
    IF lockTime > 0
    THEN <<encodeLocktimeForScript(lockTime), Ins(OP_CHECKLOCKTIMEVERIFY), Ins(OP_DROP)>>
    ELSE <<>>

RECURSIVE ChunkVerifiersFrom(_, _)
ChunkVerifiersFrom(publicCommitments, i) ==
    IF i > TotalChunks THEN <<>>
    ELSE ChunkVerifier(i, publicCommitments[i])
            \o ChunkVerifiersFrom(publicCommitments, i + 1)

buildFullWOTS16LockingScript(publicKeyHash, publicCommitments, lockTime) ==
    TimelockGuard(lockTime) \o ChunkVerifiersFrom(publicCommitments, 1)

\* the push of a chunk's remaining counter
\* a push of the iterations where the remaining count belongs
PushIterations(remaining) ==
    IF remaining = 15 THEN Ins(OP_0) ELSE Ins(OP_BASE + 15 - remaining)
PushRemaining(remaining) ==
    IF remaining = 0 THEN Ins(OP_0)
    ELSE IF remaining <= 16 THEN Ins(OP_BASE + remaining)
    ELSE PushData(OP_PUSH1, Num(remaining))

\* chunks are pushed from the last to the first, remaining before value
RECURSIVE PushChunksFrom(_, _)
PushChunksFrom(chunks, i) ==
    IF i < 1 THEN <<>>
    ELSE <<PushRemaining(chunks[i].remaining), PushData(OP_PUSH32, chunks[i].value)>>
            \o PushChunksFrom(chunks, i - 1)

\* the chunks pushed from the first to the last
RECURSIVE PushChunksUpTo(_, _)
PushChunksUpTo(chunks, i) ==
    IF i > Len(chunks) THEN <<>>
    ELSE <<PushRemaining(chunks[i].remaining), PushData(OP_PUSH32, chunks[i].value)>>
            \o PushChunksUpTo(chunks, i + 1)
buildWOTS16UnlockingScriptForward(signature) ==
    PushChunksUpTo(signature.chunks, 1)
buildWOTS16UnlockingScript(signature) ==
    PushChunksFrom(signature.chunks, Len(signature.chunks))

\* ------------------------------------------------------------------------
\* The stack machine that runs the emitted scripts: the consensus script
\* engine the opcode table of winternitz.js is written for.  The top of the
\* stack is the last element.  A machine is
\*   [phase, pc, stack, vfExec, status]
\* phase "unlock" runs the unlocking script, phase "lock" the locking script
\* on the stack the unlocking script left.
\* ------------------------------------------------------------------------
Top(stack) == stack[Len(stack)]
Second(stack) == stack[Len(stack) - 1]
Pop(stack) == SubSeq(stack, 1, Len(stack) - 1)
Pop2(stack) == SubSeq(stack, 1, Len(stack) - 2)

CastToBool(v) == ~(IsNum(v) /\ NumOf(v) = 0)
BoolValue(b) == IF b THEN Num(1) ELSE Num(0)

\* OP_DIV and OP_MOD truncate toward zero; the sign of a remainder is the
\* sign of the dividend
TruncDiv(a, b) == IF a >= 0 THEN a \div b ELSE -((-a) \div b)
TruncMod(a, b) == a - b * TruncDiv(a, b)

\* a transaction as the script engine sees it
Tx(outputs, nLockTime, finalSequence) ==
    [outputs |-> outputs, nLockTime |-> nLockTime, finalSequence |-> finalSequence]
SighashOf(tx) == <<tx.outputs, tx.nLockTime>>
Signature(keyId, tx) == <<4, keyId, SighashOf(tx), 0>>
PublicKey(keyId) == <<5, keyId, 0, 0>>
CheckSig(sig, pubKey, tx) ==
    /\ sig[1] = 4 /\ sig[4] = 0
    /\ pubKey[1] = 5 /\ pubKey[4] = 0
    /\ sig[2] = pubKey[2]
    /\ sig[3] = SighashOf(tx)

StartMachine ==
    [phase |-> "unlock", pc |-> 1, stack |-> <<>>, vfExec |-> <<>>, status |-> "run"]

Executing(m) == \A j \in 1..Len(m.vfExec) : m.vfExec[j]
Fail(m) == [m EXCEPT !.status = "fail"]
Next1(m) == [m EXCEPT !.pc = m.pc + 1]
WithStack(m, stack) == [m EXCEPT !.pc = m.pc + 1, !.stack = stack]

IsPushOp(op) == op <= OP_16 /\ op # OP_BASE

ExecPush(m, op, data) ==
    WithStack(m, Append(m.stack,
        IF op = OP_0 THEN Num(0)
        ELSE IF op = OP_1NEGATE THEN Num(-1)
        ELSE IF op > OP_BASE THEN Num(op - OP_BASE)
        ELSE data))

ExecArith(m, op) ==
    LET a == Second(m.stack)
        b == Top(m.stack)
    IN  IF Len(m.stack) < 2 \/ ~IsNum(a) \/ ~IsNum(b) \/ NumOf(b) = 0 THEN Fail(m)
        ELSE WithStack(m, Append(Pop2(m.stack),
                Num(IF op = OP_DIV THEN TruncDiv(NumOf(a), NumOf(b))
                    ELSE TruncMod(NumOf(a), NumOf(b)))))

ExecOp(m, op, data, tx) ==
    IF IsPushOp(op) THEN ExecPush(m, op, data)
    ELSE IF op = OP_DROP THEN
        IF Len(m.stack) < 1 THEN Fail(m) ELSE WithStack(m, Pop(m.stack))
    ELSE IF op = OP_DUP THEN
        IF Len(m.stack) < 1 THEN Fail(m)
        ELSE WithStack(m, Append(m.stack, Top(m.stack)))
    ELSE IF op = OP_SWAP THEN
        IF Len(m.stack) < 2 THEN Fail(m)
        ELSE WithStack(m, Pop2(m.stack) \o <<Top(m.stack), Second(m.stack)>>)
    ELSE IF op = OP_SIZE THEN
        IF Len(m.stack) < 1 THEN Fail(m)
        ELSE WithStack(m, Append(m.stack, Num(ByteLength(Top(m.stack)))))
    ELSE IF op = OP_SHA256 THEN
        IF Len(m.stack) < 1 THEN Fail(m)
        ELSE WithStack(m, Append(Pop(m.stack), sha256(Top(m.stack))))
    ELSE IF op = OP_EQUAL THEN
        IF Len(m.stack) < 2 THEN Fail(m)
        ELSE WithStack(m, Append(Pop2(m.stack),
                BoolValue(BytesEqual(Second(m.stack), Top(m.stack)))))
    ELSE IF op = OP_EQUALVERIFY THEN
        IF Len(m.stack) < 2 THEN Fail(m)
        ELSE IF BytesEqual(Second(m.stack), Top(m.stack))
             THEN WithStack(m, Pop2(m.stack))
             ELSE Fail(m)
    ELSE IF op = OP_DIV \/ op = OP_MOD THEN ExecArith(m, op)
    ELSE IF op = OP_CHECKSIGVERIFY THEN
        IF Len(m.stack) < 2 THEN Fail(m)
        ELSE IF CheckSig(Second(m.stack), Top(m.stack), tx)
             THEN WithStack(m, Pop2(m.stack))
             ELSE Fail(m)
    ELSE IF op = OP_CHECKLOCKTIMEVERIFY THEN
        IF Len(m.stack) < 1 \/ ~IsNum(Top(m.stack)) THEN Fail(m)
        ELSE IF NumOf(Top(m.stack)) < 0
                \/ NumOf(Top(m.stack)) > tx.nLockTime
                \/ tx.finalSequence
             THEN Fail(m)
             ELSE Next1(m)
    ELSE Fail(m)

\* one instruction, with the conditional stack of OP_IF ... OP_ENDIF
ExecInstruction(m, ins, tx) ==
    LET op == ins[1]
    IN  IF op = OP_IF THEN
            IF ~Executing(m)
            THEN [m EXCEPT !.pc = m.pc + 1, !.vfExec = Append(m.vfExec, FALSE)]
            ELSE IF Len(m.stack) < 1 THEN Fail(m)
            ELSE [m EXCEPT !.pc = m.pc + 1,
                           !.stack = Pop(m.stack),
                           !.vfExec = Append(m.vfExec, CastToBool(Top(m.stack)))]
        ELSE IF op = OP_ENDIF THEN
            IF m.vfExec = <<>> THEN Fail(m)
            ELSE [m EXCEPT !.pc = m.pc + 1, !.vfExec = Pop(m.vfExec)]
        ELSE IF ~Executing(m) THEN Next1(m)
        ELSE ExecOp(m, op, ins[2], tx)

\* one step of the evaluation of unlocking script, then locking script
Step(m, unlocking, locking, tx) ==
    IF m.status # "run" THEN m
    ELSE IF m.phase = "unlock" THEN
        IF m.pc > Len(unlocking)
        THEN IF m.vfExec # <<>> THEN Fail(m)
             ELSE [m EXCEPT !.phase = "lock", !.pc = 1]
        ELSE ExecInstruction(m, unlocking[m.pc], tx)
    ELSE
        IF m.pc > Len(locking)
        THEN IF m.vfExec # <<>> THEN Fail(m)
             ELSE [m EXCEPT !.status = "done"]
        ELSE ExecInstruction(m, locking[m.pc], tx)

\* the verdict of a finished evaluation
EvalTrue(m) ==
    m.status = "done" /\ m.stack # <<>> /\ CastToBool(Top(m.stack))

\* run n steps (a halted machine no longer moves)
RECURSIVE Run(_, _, _, _, _)
Run(m, unlocking, locking, tx, n) ==
    IF n <= 0 \/ m.status # "run" THEN m
    ELSE IF n = 1 THEN Step(m, unlocking, locking, tx)
    ELSE Run(Run(m, unlocking, locking, tx, n \div 2),
             unlocking, locking, tx, n - (n \div 2))

\* the whole evaluation: every instruction is one step, plus the two phase ends
Evaluate(unlocking, locking, tx) ==
    Run(StartMachine, unlocking, locking, tx, Len(unlocking) + Len(locking) + 2)

\* ------------------------------------------------------------------------
\* Winternitz-32 keypairs and the other locking scripts (winternitz.js)
\* ------------------------------------------------------------------------
KeypairOf(scalars) ==
    LET commitments ==
            [i \in 1..Len(scalars) |-> iteratedSha256(scalars[i], MAX_ITERATIONS)]
    IN  [scalars |-> scalars,
         commitments |-> commitments,
         concatenated |-> Concat(commitments),
         publicKeyHash |-> sha256(Concat(commitments))]

generateWinternitzKeypair(k) ==
    KeypairOf([i \in 1..CHUNKS |-> Scalar32(k, i)])

\* the result carries the error a throw would carry ("" when none)
restoreKeypairFromPrivate(privateKey) ==
    IF Len(privateKey) # CHUNKS
    THEN [error |-> "Invalid private key length", keypair |-> KeypairOf(<<>>)]
    ELSE [error |-> "", keypair |-> KeypairOf(privateKey)]

buildStandardLockingScript(publicKeyHash) ==
    <<Ins(OP_SHA256), PushData(OP_PUSH32, publicKeyHash), Ins(OP_EQUAL)>>

buildTimelockLockingScript(publicKeyHash, lockTime) ==
    <<encodeLocktimeForScript(lockTime), Ins(OP_CHECKLOCKTIMEVERIFY), Ins(OP_DROP),
      Ins(OP_SHA256), PushData(OP_PUSH32, publicKeyHash), Ins(OP_EQUAL)>>

buildMaximumSecurityScript(publicKeyHash, ephemeralPubKey, lockTime) ==
    TimelockGuard(lockTime)
    \o <<PushData(ByteLength(ephemeralPubKey), ephemeralPubKey), Ins(OP_CHECKSIGVERIFY)>>
    \o <<Ins(OP_SIZE), PushData(2, Num(CHUNKS * 32)), Ins(OP_EQUALVERIFY),
         Ins(OP_SHA256), PushData(OP_PUSH32, publicKeyHash), Ins(OP_EQUAL)>>

\* an unlocking script that pushes the 32-byte hash itself
buildUnlockingScriptOfHash(vault) ==
    <<PushData(OP_PUSH32, vault.keypair.publicKeyHash)>>
\* the push of the 1024-byte preimage
buildUnlockingScript(vault) ==
    LET wotsPreimage == vault.keypair.concatenated
        n == ByteLength(wotsPreimage)
    IN  <<PushData(IF n <= 75 THEN n
                   ELSE IF n <= 255 THEN OP_PUSHDATA1 ELSE OP_PUSHDATA2,
                   wotsPreimage)>>

createUnlockingData(vault) ==
    LET wotsPreimage == vault.keypair.concatenated
    IN  IF ~BytesEqual(sha256(wotsPreimage), vault.keypair.publicKeyHash)
        THEN [error |-> "Preimage verification failed", scriptSig |-> <<>>,
              preimageSize |-> 0]
        ELSE [error |-> "", scriptSig |-> buildUnlockingScript(vault),
              preimageSize |-> ByteLength(wotsPreimage)]

\* ------------------------------------------------------------------------
\* Vault lifecycle (winternitz.js): the secret is the decoded JSON object
\* ------------------------------------------------------------------------
NoWots16 ==
    [present |-> FALSE, privateScalars |-> <<>>, publicCommitments |-> <<>>,
     publicKeyHash |-> NoData]

NoUnlockInfo == [type |-> "null", at |-> 0]

\* k names the randomness of the call; lockType is 'blocks'
createQuantumVault(securityLevel, lockTime, k) ==
    LET effectiveLockTime == IF lockTime > 0 THEN lockTime ELSE 0
        keypair == generateWinternitzKeypair(k)
        wots16Keypair == generateWOTS16Keypair(k)
        ultimate == securityLevel = "ultimate"
        maximum == securityLevel = "maximum"
        enhanced == securityLevel = "enhanced"
        lockingScript ==
            IF ultimate THEN
                buildFullWOTS16LockingScript(wots16Keypair.publicKeyHash,
                    wots16Keypair.publicCommitments, effectiveLockTime)
            ELSE IF maximum THEN
                buildMaximumSecurityScript(keypair.publicKeyHash, PublicKey(k),
                    effectiveLockTime)
            ELSE IF enhanced /\ effectiveLockTime > 0 THEN
                buildTimelockLockingScript(keypair.publicKeyHash, effectiveLockTime)
            ELSE buildStandardLockingScript(keypair.publicKeyHash)
        scriptType ==
            IF ultimate THEN "wots16-full-verification"
            ELSE IF maximum THEN "preimage-ecdsa-covenant"
            ELSE IF enhanced /\ effectiveLockTime > 0 THEN "preimage-timelock"
            ELSE "preimage-based"
        masterSecret ==
            [version |-> 4,
             privateKey |-> keypair.scalars,
             publicKeyHash |-> keypair.publicKeyHash,
             lockingScript |-> lockingScript,
             scriptType |-> scriptType,
             securityLevel |-> securityLevel,
             lockTime |-> effectiveLockTime,
             ephemeralPrivateKey |-> IF maximum THEN k ELSE 0,
             wots16 |->
                IF ultimate
                THEN [present |-> TRUE,
                      privateScalars |-> wots16Keypair.privateScalars,
                      publicCommitments |-> wots16Keypair.publicCommitments,
                      publicKeyHash |-> wots16Keypair.publicKeyHash]
                ELSE NoWots16]
    IN  [lockingScript |-> lockingScript,
         secret |-> masterSecret,
         scriptType |-> scriptType,
         securityLevel |-> securityLevel,
         lockTime |-> effectiveLockTime,
         unlockInfo |->
            IF effectiveLockTime > 0
            THEN [type |-> IF effectiveLockTime < 500000000 THEN "block" ELSE "timestamp",
                  at |-> effectiveLockTime]
            ELSE NoUnlockInfo,
         publicKeyHash |->
            IF ultimate THEN wots16Keypair.publicKeyHash ELSE keypair.publicKeyHash,
         frontRunImmune |-> maximum,
         quantumImmuneSpend |-> ultimate]

\* an absent or empty field of the secret
Missing(field) == field = <<>> \/ field = NoData

\* a restore that does not compare the recomputed hash with the stored one
restoreVaultUnchecked(secret) ==
    LET restored == restoreKeypairFromPrivate(secret.privateKey)
    IN  [error |->
            IF Missing(secret.privateKey) \/ Missing(secret.publicKeyHash)
            THEN "Invalid secret: missing required fields"
            ELSE restored.error,
         keypair |-> restored.keypair,
         lockingScript |->
            IF secret.lockingScript # <<>> THEN secret.lockingScript
            ELSE buildStandardLockingScript(restored.keypair.publicKeyHash),
         publicKeyHash |-> restored.keypair.publicKeyHash,
         scriptType |-> secret.scriptType,
         securityLevel |-> secret.securityLevel,
         lockTime |-> secret.lockTime]
restoreVaultFromSecret(secret) ==
    LET restored == restoreKeypairFromPrivate(secret.privateKey)
        keypair == restored.keypair
        error ==
            IF Missing(secret.privateKey) \/ Missing(secret.publicKeyHash)
            THEN "Invalid secret: missing required fields"
            ELSE IF restored.error # "" THEN restored.error
            ELSE IF ~BytesEqual(keypair.publicKeyHash, secret.publicKeyHash)
            THEN "Corrupted secret: public key hash mismatch"
            ELSE ""
    IN  [error |-> error,
         keypair |-> keypair,
         lockingScript |->
            IF secret.lockingScript # <<>> THEN secret.lockingScript
            ELSE buildStandardLockingScript(keypair.publicKeyHash),
         publicKeyHash |-> keypair.publicKeyHash,
         scriptType |-> secret.scriptType,
         securityLevel |-> secret.securityLevel,
         lockTime |-> secret.lockTime]

\* ------------------------------------------------------------------------
\* The vaults of the model: one per security level, without time lock
\* ------------------------------------------------------------------------
Levels == {"standard", "enhanced", "maximum", "ultimate"}
\* createQuantumVault({ securityLevel }) for each level, computed once
RECURSIVE VaultsOver(_)
VaultsOver(levels) ==
    IF levels = {} THEN <<>>
    ELSE LET l == CHOOSE x \in levels : TRUE
         IN  (l :> createQuantumVault(l, 0, 1)) @@ VaultsOver(levels \ {l})
Vaults == VaultsOver(Levels)
VaultOf(level) == Vaults[level]
TheVault == Vaults["ultimate"]

\* ------------------------------------------------------------------------
\* Requests (part_000, server.js).  The base64 secret of a request is named
\* by the vault it was exported from and by what was done to it since.
\* ------------------------------------------------------------------------
Variants ==
    {"created", "hash", "key", "short", "nohash",
     "covenant", "commitments", "covenantCommitments"}
NoBlob == [level |-> "none", variant |-> "none"]
SecretBlobs(level) ==
    IF level = "none" THEN {NoBlob}
    ELSE {NoBlob} \cup {[level |-> level, variant |-> v] : v \in Variants}

TamperedCommitments(w) ==
    IF w.present
    THEN [w EXCEPT !.publicCommitments =
            [w.publicCommitments EXCEPT ![1] = sha256(Foreign(3))]]
    ELSE w

\* the secret `created` after what variant v names was done to it
ApplyVariant(created, v) ==
    IF v = "hash" THEN [created EXCEPT !.publicKeyHash = sha256(Foreign(1))]
    ELSE IF v = "key" THEN
        [created EXCEPT !.privateKey = [created.privateKey EXCEPT ![1] = Foreign(2)]]
    ELSE IF v = "short" THEN
        [created EXCEPT !.privateKey = SubSeq(created.privateKey, 1, CHUNKS - 1)]
    ELSE IF v = "nohash" THEN [created EXCEPT !.publicKeyHash = NoData]
    ELSE IF v = "covenant" THEN [created EXCEPT !.scriptType = "wots16-covenant"]
    ELSE IF v = "commitments" THEN
        [created EXCEPT !.wots16 = TamperedCommitments(created.wots16)]
    ELSE IF v = "covenantCommitments" THEN
        [created EXCEPT !.scriptType = "wots16-covenant",
                        !.wots16 = TamperedCommitments(created.wots16)]
    ELSE created

\* JSON.parse(Buffer.from(secret, 'base64').toString())
DecodeSecret(blob) == ApplyVariant(VaultOf(blob.level).secret, blob.variant)

\* what restoreVaultFromSecret returns for each secret of the model, computed
\* once: the handlers look their call up here
AllBlobs == {[level |-> l, variant |-> v] : l \in Levels, v \in Variants}
RECURSIVE RestoredOver(_)
RestoredOver(blobs) ==
    IF blobs = {} THEN <<>>
    ELSE LET b == CHOOSE x \in blobs : TRUE
         IN  (b :> restoreVaultFromSecret(DecodeSecret(b))) @@ RestoredOver(blobs \ {b})
RestoredVaults == RestoredOver(AllBlobs)
Restore(blob) == RestoredVaults[blob]

\* a destination address: its first character, its checksum, its payload
Address(startsWith1, checksumOk, payload) ==
    [startsWith1 |-> startsWith1, checksumOk |-> checksumOk, payload |-> payload]
NoAddress == Address(FALSE, FALSE, 0)
Addresses ==
    {Address(TRUE, TRUE, d) : d \in 1..NumDestinations}
    \cup {Address(FALSE, TRUE, NumDestinations + 1),
          Address(TRUE, FALSE, NumDestinations + 2), NoAddress}

base58CheckDecode(address) ==
    [error |-> IF address.checksumOk THEN "" ELSE "Invalid checksum",
     payload |-> address.payload]

\* the funding wallet of a deposit request
Funding(present, keyMatches, value) ==
    [present |-> present, keyMatches |-> keyMatches, value |-> value]
NoFunding == Funding(FALSE, FALSE, 0)
Fundings ==
    {Funding(TRUE, TRUE, FundingValues[n]) : n \in 1..NumFundingValues}
    \cup {Funding(TRUE, FALSE, FundingValues[1]), Funding(TRUE, TRUE, 0), NoFunding}

NoTx ==
    [kind |-> "none", spent |-> 0, scriptSig |-> <<>>, outputs |-> <<>>,
     nLockTime |-> 0, finalSequence |-> TRUE, preimage |-> <<>>, inputValue |-> 0,
     fee |-> 0, size |-> 0]

IdleRequest ==
    [handler |-> "none", pc |-> "idle", secretBlob |-> NoBlob,
     toAddress |-> NoAddress, feeRate |-> 0, funding |-> NoFunding,
     restoreCalled |-> FALSE, built |-> FALSE, signedDigest |-> <<>>,
     sent |-> FALSE, tx |-> NoTx, success |-> FALSE, error |-> ""]

\* ------------------------------------------------------------------------
\* Transaction building (part_000, server.js)
\* ------------------------------------------------------------------------
\* bytes an instruction takes in a serialized script
InsSize(ins) ==
    IF ins[1] >= 1 /\ ins[1] <= 75 THEN 1 + ins[1]
    ELSE IF ins[1] = OP_PUSHDATA1 THEN 2 + ByteLength(ins[2])
    ELSE IF ins[1] = OP_PUSHDATA2 THEN 3 + ByteLength(ins[2])
    ELSE IF ins[1] = OP_PUSHDATA4 THEN 5 + ByteLength(ins[2])
    ELSE 1

\* acc plus the bytes of the n instructions from lo on (the sum is split in
\* halves to keep the evaluation shallow)
RECURSIVE ScriptSizeFrom(_, _, _, _)
ScriptSizeFrom(script, acc, lo, n) ==
    IF n <= 0 \/ acc < 0 THEN acc
    ELSE IF n = 1 THEN acc + InsSize(script[lo])
    ELSE ScriptSizeFrom(script, ScriptSizeFrom(script, acc, lo, n \div 2),
                        lo + (n \div 2), n - (n \div 2))
\* Buffer.length of a script
ScriptSize(script) == ScriptSizeFrom(script, 0, 1, Len(script))

encodeVarIntSize(n) ==
    IF n < 253 THEN 1 ELSE IF n <= 65535 THEN 3 ELSE 5

encodePushData(data) ==
    PushData(IF ByteLength(data) <= 75 THEN ByteLength(data)
             ELSE IF ByteLength(data) <= 255 THEN OP_PUSHDATA1
             ELSE IF ByteLength(data) <= 65535 THEN OP_PUSHDATA2
             ELSE OP_PUSHDATA4, data)

\* rawTx.length of a sweep: version, input count, per input the outpoint,
\* the unlocking script behind the varint of its length and the sequence,
\* output count, value, the 25-byte output script behind its length, lock time
RawTxSize(inputs, unlockingScript) ==
    4 + encodeVarIntSize(inputs)
      + inputs * (32 + 4 + encodeVarIntSize(ScriptSize(unlockingScript))
                    + ScriptSize(unlockingScript) + 4)
      + 1 + 8 + encodeVarIntSize(25) + 25 + 4

RECURSIVE TotalFrom(_, _)
TotalFrom(utxos, i) ==
    IF i > Len(utxos) THEN 0 ELSE utxos[i] + TotalFrom(utxos, i + 1)
\* utxos.reduce((sum, utxo) => sum + utxo.value, 0)
TotalInput(utxos) == TotalFrom(utxos, 1)

\* hash256(serializeOutputs(outputs)) of a one-output list: SHA-256 has no
\* closed form, the 32 digest bytes are an injective code of the output
hash256Outputs(outputs) ==
    [k \in 1..MESSAGE_BYTES |->
        IF k <= 4 THEN (outputs[1].value \div (256 ^ (k - 1))) % 256
        ELSE IF k = 5 THEN outputs[1].dest % 256
        ELSE (7 * k + outputs[1].dest) % 256]

getCovenantPrivateKey == 0

\* a field of a serialization: its name, its bytes, what it holds
Field(name, size, value) == [name |-> name, size |-> size, value |-> value]

RECURSIVE FieldsSize(_, _)
FieldsSize(fields, i) ==
    IF i > Len(fields) THEN 0 ELSE fields[i].size + FieldsSize(fields, i + 1)

\* the preimage with sequence and lock time ahead of the outpoint
CovenantPreimageMisordered(utxos, lockingScriptLength, hashOutputs) ==
    <<Field("nVersion", 4, TX_VERSION),
      Field("sequence", 4, SEQUENCE_FINAL),
      Field("nLocktime", 4, 0),
      Field("hashPrevouts", 32, <<1>>),
      Field("hashSequence", 32, <<SEQUENCE_FINAL>>),
      Field("outpoint", 36, 1),
      Field("scriptCodeLen", encodeVarIntSize(lockingScriptLength), lockingScriptLength),
      Field("scriptCode", lockingScriptLength, "lockingScript"),
      Field("value", 8, utxos[1]),
      Field("hashOutputs", 32, hashOutputs),
      Field("sighashType", 4, SIGHASH_ALL_FORKID)>>
\* part_000: the BIP-143 preimage of the spent input, utxos[0], field by
\* field in the order of Buffer.concat; outpoints are named by their index
\* in utxos, a hash by what it was taken over
CovenantPreimage(utxos, lockingScriptLength, hashOutputs) ==
    <<Field("nVersion", 4, TX_VERSION),
      Field("hashPrevouts", 32, <<1>>),
      Field("hashSequence", 32, <<SEQUENCE_FINAL>>),
      Field("outpoint", 36, 1),
      Field("scriptCodeLen", encodeVarIntSize(lockingScriptLength), lockingScriptLength),
      Field("scriptCode", lockingScriptLength, "lockingScript"),
      Field("value", 8, utxos[1]),
      Field("sequence", 4, SEQUENCE_FINAL),
      Field("hashOutputs", 32, hashOutputs),
      Field("nLocktime", 4, 0),
      Field("sighashType", 4, SIGHASH_ALL_FORKID)>>

\* the preimage as a pushed byte string: its length, and the digest it commits to
SighashPreimage(fields) ==
    LET at == CHOOSE i \in 1..Len(fields) : fields[i].name = "hashOutputs"
    IN  <<8, fields[at].value, FieldsSize(fields, 1), 0>>

\* the outputs the raw transaction pays one satoshi less than was hashed
RawTxOutputsShort(outputValue, destPubKeyHash) ==
    <<[value |-> outputValue - 1, dest |-> destPubKeyHash]>>
\* part_000: the output section of the raw transaction
RawTxOutputs(outputValue, destPubKeyHash) ==
    <<[value |-> outputValue, dest |-> destPubKeyHash]>>

\* winternitz.js: the unlocking script with the covenant signature and the
\* preimage, as the library builds it
buildWOTS16UnlockingScriptWithCovenant(signature, sighashPreimage, covenantSignature) ==
    PushChunksFrom(signature.chunks, Len(signature.chunks))
    \o <<encodePushData(covenantSignature), encodePushData(sighashPreimage)>>

\* part_000: the covenant sweep of an ultimate vault; "signedDigest" is the
\* message signWOTS16 was called with (<<>> when it was not called)
buildWOTS16CovenantTransaction(secret, utxos, destinationAddress, feeRate) ==
    LET wots16Keypair ==
            [privateScalars |-> secret.wots16.privateScalars,
             publicCommitments |-> secret.wots16.publicCommitments,
             publicKeyHash |-> secret.wots16.publicKeyHash]
        totalInput == TotalInput(utxos)
        decoded == base58CheckDecode(destinationAddress)
        lockingScriptLength == ScriptSize(secret.lockingScript)
        estimatedUnlockSize == 2312 + 73 + lockingScriptLength + 160
        estimatedTxSize == 10 + 41 + estimatedUnlockSize + 34
        fee == estimatedTxSize * feeRate
        outputValue == totalInput - fee
        outputs == <<[value |-> outputValue, dest |-> decoded.payload]>>
        hashOutputs == hash256Outputs(outputs)
        wots16Signature == signWOTS16(wots16Keypair, hashOutputs)
        preimageFields == CovenantPreimage(utxos, lockingScriptLength, hashOutputs)
        preimage == SighashPreimage(preimageFields)
        ecdsaSignature == Signature(getCovenantPrivateKey, Tx(outputs, 0, TRUE))
        unlockingScript ==
            <<encodePushData(preimage), encodePushData(ecdsaSignature)>>
            \o PushChunksFrom(wots16Signature.chunks, Len(wots16Signature.chunks))
        error ==
            IF ~secret.wots16.present THEN "Vault does not have WOTS-16 keys"
            ELSE IF decoded.error # "" THEN decoded.error
            ELSE IF outputValue <= CovenantMinOutput THEN "Output value too low"
            ELSE ""
    IN  IF error # ""
        THEN [error |-> error, signedDigest |-> <<>>, tx |-> NoTx]
        ELSE [error |-> "", signedDigest |-> hashOutputs,
              tx |-> [kind |-> "sweep", spent |-> 1, scriptSig |-> unlockingScript,
                      outputs |-> RawTxOutputs(outputValue, decoded.payload),
                      nLockTime |-> 0, finalSequence |-> TRUE,
                      preimage |-> preimageFields, inputValue |-> totalInput,
                      fee |-> fee, size |-> RawTxSize(1, unlockingScript)]]

\* part_000: every input carries the unlocking script; the sequence is
\* ff ff ff ff unless a lock time is given
buildRawTransaction(utxos, unlockingScript, outputs, nLockTime) ==
    [kind |-> "sweep", spent |-> Len(utxos), scriptSig |-> unlockingScript,
     outputs |-> outputs, nLockTime |-> nLockTime, finalSequence |-> ~(nLockTime > 0),
     preimage |-> <<>>, inputValue |-> 0, fee |-> 0,
     size |-> RawTxSize(Len(utxos), unlockingScript)]

\* a standard sweep that does not compare the output with the minimum
buildStandardSweepNoMinimum(utxos, vault, toAddress, feeRate) ==
    LET decoded == base58CheckDecode(toAddress)
        unlockData == createUnlockingData(vault)
        estimatedSize == 10 + (Len(utxos) * (43 + 3 + unlockData.preimageSize)) + 34
        outputValue == TotalInput(utxos) - estimatedSize * feeRate
    IN  IF decoded.error # ""
        THEN [error |-> decoded.error, signedDigest |-> <<>>, tx |-> NoTx]
        ELSE [error |-> "", signedDigest |-> <<>>,
              tx |-> [buildRawTransaction(utxos, unlockData.scriptSig,
                        <<[value |-> outputValue, dest |-> decoded.payload]>>, 0)
                      EXCEPT !.inputValue = TotalInput(utxos),
                             !.fee = estimatedSize * feeRate]]
\* part_000: the sweep of every other vault
buildStandardSweepTransaction(utxos, vault, toAddress, feeRate) ==
    LET totalInput == TotalInput(utxos)
        decoded == base58CheckDecode(toAddress)
        unlockData == createUnlockingData(vault)
        scriptSigSize == 3 + unlockData.preimageSize
        inputSize == 32 + 4 + 3 + scriptSigSize + 4
        estimatedSize == (4 + 1 + 1 + 4) + (Len(utxos) * inputSize) + (8 + 1 + 25)
        fee == estimatedSize * feeRate
        outputValue == totalInput - fee
        error ==
            IF decoded.error # "" THEN decoded.error
            ELSE IF unlockData.error # "" THEN unlockData.error
            ELSE IF outputValue < MIN_OUTPUT THEN "Insufficient funds"
            ELSE ""
    IN  IF error # ""
        THEN [error |-> error, signedDigest |-> <<>>, tx |-> NoTx]
        ELSE [error |-> "", signedDigest |-> <<>>,
              tx |-> [buildRawTransaction(utxos, unlockData.scriptSig,
                        <<[value |-> outputValue, dest |-> decoded.payload]>>, 0)
                      EXCEPT !.inputValue = totalInput, !.fee = fee]]

\* server.js: the only sweep builder of that server; the destination's
\* checksum is not looked at
buildSweepTransaction(utxos, vault, toAddress, feeRate) ==
    LET totalInput == TotalInput(utxos)
        unlockData == createUnlockingData(vault)
        scriptSigSize == 2 + unlockData.preimageSize
        inputSize == 32 + 4 + 1 + scriptSigSize + 4
        estimatedSize == (4 + 1 + 1 + 4) + (Len(utxos) * inputSize) + (8 + 1 + 25)
        fee == estimatedSize * feeRate
        outputValue == totalInput - fee
        error ==
            IF unlockData.error # "" THEN unlockData.error
            ELSE IF outputValue < MIN_OUTPUT THEN "Insufficient funds"
            ELSE IF ~toAddress.startsWith1 THEN "Invalid destination address"
            ELSE ""
    IN  IF error # ""
        THEN [error |-> error, signedDigest |-> <<>>, tx |-> NoTx]
        ELSE [error |-> "", signedDigest |-> <<>>,
              tx |-> [kind |-> "sweep", spent |-> Len(utxos),
                      scriptSig |-> unlockData.scriptSig,
                      outputs |-> <<[value |-> outputValue, dest |-> toAddress.payload]>>,
                      nLockTime |-> 0, finalSequence |-> TRUE, preimage |-> <<>>,
                      inputValue |-> totalInput, fee |-> fee,
                      size |-> RawTxSize(Len(utxos), unlockData.scriptSig)]]

\* ------------------------------------------------------------------------
\* Request handlers, cut at their awaits: from the request to the fetch of
\* the unspent outputs, from there to the broadcast, and the broadcast
\* ------------------------------------------------------------------------
Failed(req, error) == [req EXCEPT !.pc = "done", !.success = FALSE, !.error = error]

\* req.body.feeRate as parseInt reads it: absent or not a number (0 here),
\* a positive number, or a negative one
RequestFeeRates == {-1} \cup (0..MaxFeeRate)

\* parseInt(feeRate) || CONFIG.FEE_RATE_STANDARD
RateOf(feeRate) == IF feeRate = 0 THEN FEE_RATE_STANDARD ELSE feeRate

\* a handler that goes on to the broadcast whatever the builder returned
AfterBuildUnconditional(req, result) ==
    [req EXCEPT !.pc = "broadcast", !.built = (result.error = ""),
                !.signedDigest = result.signedDigest, !.tx = result.tx,
                !.error = result.error]
\* what both sweep handlers do with the result of their builder
AfterBuild(req, result) ==
    IF result.error # "" THEN Failed(req, result.error)
    ELSE [req EXCEPT !.pc = "broadcast", !.built = TRUE,
                     !.signedDigest = result.signedDigest, !.tx = result.tx]

\* a handler has called restoreVaultFromSecret: its throw ends the request
AfterRestore(req, vault) ==
    IF vault.error # "" THEN Failed([req EXCEPT !.restoreCalled = TRUE], vault.error)
    ELSE [req EXCEPT !.restoreCalled = TRUE, !.pc = "utxos"]

\* part_000 POST /api/sweep, up to the await of getUTXOsByScriptHash
SweepReceive(blob, toAddress, feeRate) ==
    LET req == [IdleRequest EXCEPT !.handler = "sweep", !.secretBlob = blob,
                                   !.toAddress = toAddress, !.feeRate = feeRate]
    IN  IF blob = NoBlob THEN Failed(req, "Vault secret required")
        ELSE IF toAddress = NoAddress THEN Failed(req, "Destination address required")
        ELSE IF ~toAddress.startsWith1
        THEN Failed(req, "Destination must be P2PKH (starts with 1)")
        ELSE AfterRestore(req, Restore(blob))

\* part_000 POST /api/sweep, from the unspent outputs to the await of the
\* broadcast; secretData and vault are what the first part decoded and restored
SweepBuildWith(req, utxos, secretData, vault) ==
    IF Len(utxos) = 0 THEN Failed(req, "No funds in vault")
    ELSE IF TotalInput(utxos) < MIN_SWEEP THEN Failed(req, "Insufficient funds")
    ELSE IF secretData.scriptType = "wots16-covenant"
            /\ secretData.wots16.present /\ secretData.securityLevel = "ultimate"
    THEN AfterBuild(req,
            buildWOTS16CovenantTransaction(secretData, utxos, req.toAddress,
                                           RateOf(req.feeRate)))
    ELSE AfterBuild(req,
            buildStandardSweepTransaction(utxos, vault, req.toAddress,
                                          RateOf(req.feeRate)))
SweepBuild(req, utxos) ==
    SweepBuildWith(req, utxos, DecodeSecret(req.secretBlob), Restore(req.secretBlob))

\* server.js POST /api/sweep
SweepV3Receive(blob, toAddress, feeRate) ==
    LET req == [IdleRequest EXCEPT !.handler = "sweepV3", !.secretBlob = blob,
                                   !.toAddress = toAddress, !.feeRate = feeRate]
    IN  IF blob = NoBlob THEN Failed(req, "Vault secret required")
        ELSE IF toAddress = NoAddress THEN Failed(req, "Destination address required")
        ELSE IF ~toAddress.startsWith1
        THEN Failed(req, "Destination must be a P2PKH address starting with 1")
        ELSE AfterRestore(req, Restore(blob))

SweepV3Build(req, utxos) ==
    IF Len(utxos) = 0 THEN Failed(req, "No funds found in vault")
    ELSE IF TotalInput(utxos) < MIN_SWEEP THEN Failed(req, "Insufficient funds")
    ELSE AfterBuild(req,
            buildSweepTransaction(utxos, Restore(req.secretBlob),
                                  req.toAddress, RateOf(req.feeRate)))

\* the funding key is checked once the vault is restored
AfterKeyCheck(req, funding) ==
    IF req.pc = "utxos" /\ ~funding.keyMatches THEN Failed(req, "Key mismatch")
    ELSE req

\* part_000 POST /api/deposit-to-vault with a vault secret
DepositReceive(blob, funding) ==
    LET req == [IdleRequest EXCEPT !.handler = "deposit", !.secretBlob = blob,
                                   !.funding = funding]
    IN  IF ~funding.present THEN Failed(req, "Funding data required")
        ELSE IF blob = NoBlob
        THEN Failed(req, "Vault secret or locking script required")
        ELSE AfterKeyCheck(AfterRestore(req, Restore(blob)), funding)

\* the funding wallet's unspent outputs arrive; one input of 148 bytes each
DepositBuildWith(req, utxos, fee) ==
    IF Len(utxos) = 0 THEN Failed(req, "No funds found in funding address")
    ELSE IF TotalInput(utxos) < fee + MIN_OUTPUT THEN Failed(req, "Insufficient funds")
    ELSE [req EXCEPT !.pc = "broadcast", !.built = TRUE,
            !.tx = [kind |-> "deposit", spent |-> 0, scriptSig |-> <<>>,
                    outputs |-> <<[value |-> TotalInput(utxos) - fee, dest |-> 0]>>,
                    nLockTime |-> 0, finalSequence |-> TRUE, preimage |-> <<>>,
                    inputValue |-> TotalInput(utxos), fee |-> fee, size |-> 0]]
DepositBuild(req, utxos) ==
    DepositBuildWith(req, utxos,
        (10 + (Len(utxos) * 148) + ScriptSize(Restore(req.secretBlob).lockingScript) + 9)
            * FEE_RATE_STANDARD)

\* the network's verdict on a sweep: the inputs exist, pay for the output,
\* and their script accepts the unlocking script
SweepTxValid(tx, level, utxos) ==
    /\ tx.spent >= 1 /\ tx.spent <= Len(utxos)
    /\ tx.outputs[1].value <= TotalInput(SubSeq(utxos, 1, tx.spent))
    /\ EvalTrue(Evaluate(tx.scriptSig, VaultOf(level).lockingScript,
                         Tx(tx.outputs, tx.nLockTime, tx.finalSequence)))

\* ------------------------------------------------------------------------
\* broadcastTransaction (part_000, server.js): the providers are tried in
\* turn, TAAL once per configured key, then GorillaPool, then WhatsOnChain
\* ------------------------------------------------------------------------
\* a provider takes the transaction, answers without taking it, or the
\* request throws (time-out, HTTP status outside 2xx)
ProviderOutcomes == {"accept", "refuse", "throw"}
\* entries of CONFIG.TAAL_KEYS
TaalKeyKinds == {"key", "PLACEHOLDER", ""}
TaalKeyLists == UNION {[1..n -> TaalKeyKinds] : n \in 0..NumTaalKeys}

Attempt(provider, key, outcome) ==
    [provider |-> provider, key |-> key, outcome |-> outcome]
\* an entry of errors: the provider's prefix and the reason of its failure
ErrorOf(provider, key) == [provider |-> provider, key |-> key]

NoBroadcast ==
    [pc |-> "idle", keys |-> <<>>, key |-> 0, attempted |-> <<>>, errors |-> <<>>,
     returned |-> FALSE, threw |-> FALSE, success |-> FALSE, via |-> "none",
     error |-> <<>>]

\* the call has been made: errors is empty, the loop over the keys starts
StartBroadcast(keys) ==
    [NoBroadcast EXCEPT !.pc = IF Len(keys) = 0 THEN "gorilla" ELSE "taal",
                        !.keys = keys, !.key = 1]

\* where the loop over CONFIG.TAAL_KEYS goes after key number b.key
AfterKey(b) ==
    [b EXCEPT !.key = b.key + 1,
              !.pc = IF b.key + 1 > Len(b.keys) THEN "gorilla" ELSE "taal"]

Returned(b, provider) ==
    [b EXCEPT !.pc = "returned", !.returned = TRUE, !.success = TRUE, !.via = provider]

\* one pass of the loop body with a key that is used
broadcastViaTaal(b, outcome) ==
    LET tried == [b EXCEPT !.attempted = Append(@, Attempt("TAAL", b.key, outcome))]
    IN  IF outcome = "accept" THEN Returned(tried, "TAAL")
        ELSE IF outcome = "throw"
        THEN AfterKey([tried EXCEPT !.errors = Append(@, ErrorOf("TAAL", b.key))])
        ELSE AfterKey(tried)

broadcastViaGorillaPool(b, outcome) ==
    LET tried == [b EXCEPT !.attempted = Append(@, Attempt("GorillaPool", 0, outcome)),
                           !.pc = "woc"]
    IN  IF outcome = "accept" THEN Returned(tried, "GorillaPool")
        ELSE IF outcome = "throw"
        THEN [tried EXCEPT !.errors = Append(@, ErrorOf("GorillaPool", 0))]
        ELSE tried

\* the last provider, and the return that follows its failure; any answer
\* of WhatsOnChain is taken for the transaction id
broadcastViaWhatsOnChain(b, outcome) ==
    LET tried == [b EXCEPT !.attempted = Append(@, Attempt("WhatsOnChain", 0, outcome))]
        errors == Append(tried.errors, ErrorOf("WhatsOnChain", 0))
    IN  IF outcome # "throw" THEN Returned(tried, "WhatsOnChain")
        ELSE [tried EXCEPT !.pc = "returned", !.returned = TRUE, !.success = FALSE,
                           !.errors = errors, !.error = errors]

NoEncoding ==
    [pc |-> "idle", hi |-> 0, lo |-> 0, buffer |-> <<>>,
     read |-> [isNumber |-> FALSE, negative |-> FALSE, wide |-> FALSE, hi |-> 0, lo |-> 0]]
NoLockedVault == [pc |-> "idle", securityLevel |-> "none", lockTime |-> 0]

\* ------------------------------------------------------------------------
\* Script evaluation: a WOTS-16 locking script spent by an unlocking script
\* built from signWOTS16's chunks, or from chunks one of which is forged.
\* ------------------------------------------------------------------------
BaseMessage(kind) ==
    [k \in 1..MESSAGE_BYTES |->
        IF kind = 1 THEN (17 * (k - 1)) % 256
        ELSE IF kind = 2 THEN 0
        ELSE IF kind = 3 THEN 255
        ELSE 90]
VaryPosList == <<1, 32, 16, 7>>
VaryByteList == <<255, 1, 128, 15>>

Messages ==
    {BaseMessage(b) : b \in 1..NumBase}
    \cup {[BaseMessage(b) EXCEPT ![VaryPosList[p]] = VaryByteList[v]] :
            b \in 1..NumBase, p \in 1..NumVaryPos, v \in 1..NumVaryByte}

\* two destinations, two output lists
OutputLists == {<<[value |-> 9000, dest |-> d]>> : d \in 1..2}
Txs == {Tx(o, 0, TRUE) : o \in OutputLists}
FirstTx == Tx(<<[value |-> 9000, dest |-> 1]>>, 0, TRUE)

\* the keypair of the vault under evaluation, the ultimate-tier vault
TheKeypair == TheVault.secret.wots16

\* where and how a chunk is forged
ForgeChunks == {1, TotalChunks}
ForgeRemainings(j) == IF j = 1 THEN -17..33 ELSE {-16, -1, 0, 1, 16, 17}
ForgeDepths == (WOTS16_COMMIT_HASHES - NumForgeDepth + 1)..WOTS16_COMMIT_HASHES

\* what an unlocking script pushes for a list of pushedPairs: the numbers by the
\* shortest push, the values by a 32-byte push, last chunk first
PushNumber(n) ==
    IF n = 0 THEN Ins(OP_0)
    ELSE IF n = -1 THEN Ins(OP_1NEGATE)
    ELSE IF n >= 1 /\ n <= 16 THEN Ins(OP_BASE + n)
    ELSE PushData(OP_PUSH1, Num(n))

RECURSIVE PushPairsFrom(_, _)
PushPairsFrom(ps, i) ==
    IF i < 1 THEN <<>>
    ELSE <<PushNumber(ps[i].remaining), PushData(OP_PUSH32, ps[i].value)>>
            \o PushPairsFrom(ps, i - 1)

PairsOf(signature) ==
    [i \in 1..TotalChunks |->
        [remaining |-> signature.chunks[i].remaining,
         value |-> signature.chunks[i].value]]

\* the locking script of the output being spent
TheLockingScript == TheVault.lockingScript

\* no server runs while a script is evaluated
ServerIdle ==
    /\ createdLevel = "ultimate"
    /\ vaultUtxos = <<>>
    /\ inflight = IdleRequest
    /\ signedDigests = {}
    /\ requestsMade = 0

NoCalls == broadcast = NoBroadcast /\ encoding = NoEncoding /\ lockedVault = NoLockedVault
InitScriptCommon == vm = StartMachine /\ ServerIdle /\ NoCalls

InitHonest ==
    /\ InitScriptCommon
    /\ signedMessage \in Messages
    /\ honest = TRUE
    /\ pushedPairs = PairsOf(signWOTS16(TheKeypair, signedMessage))
    /\ scriptSig = buildWOTS16UnlockingScript(signWOTS16(TheKeypair, signedMessage))
    /\ spendTx \in (IF signedMessage = BaseMessage(1) THEN Txs ELSE {FirstTx})

\* one chunk j of the signature of BaseMessage(1) replaced by (r, H^d(scalar j))
Forged(j, r, d) ==
    /\ InitScriptCommon
    /\ signedMessage = BaseMessage(1)
    /\ honest = FALSE
    /\ pushedPairs = [PairsOf(signWOTS16(TheKeypair, signedMessage)) EXCEPT
                        ![j] = [remaining |-> r,
                                value |-> iteratedSha256(TheKeypair.privateScalars[j], d)]]
    /\ scriptSig = PushPairsFrom(pushedPairs, TotalChunks)
    /\ spendTx = FirstTx

\* a forged remaining of 16 or more
InitForgedAbove ==
    \E j \in ForgeChunks : \E r \in ForgeRemainings(j) : \E d \in ForgeDepths :
        r > 15 /\ Forged(j, r, d)

\* a forged remaining below 16: negative, or in range
InitForgedBelow ==
    \E j \in ForgeChunks : \E r \in ForgeRemainings(j) : \E d \in ForgeDepths :
        r <= 15 /\ Forged(j, r, d)

InitScript == InitHonest \/ InitForgedAbove \/ InitForgedBelow

\* the script engine executes one instruction of the unlocking script
ExecUnlock ==
    /\ vm.status = "run"
    /\ vm.phase = "unlock"
    /\ vm' = Step(vm, scriptSig, TheLockingScript, spendTx)
    /\ UNCHANGED <<scriptSig, spendTx, pushedPairs, signedMessage, honest>>
    /\ UNCHANGED <<serverVars, callVars>>

\* the script engine executes one instruction of the locking script
ExecLock ==
    /\ vm.status = "run"
    /\ vm.phase = "lock"
    /\ vm' = Step(vm, scriptSig, TheLockingScript, spendTx)
    /\ UNCHANGED <<scriptSig, spendTx, pushedPairs, signedMessage, honest>>
    /\ UNCHANGED <<serverVars, callVars>>

NextScript == ExecUnlock \/ ExecLock

SpecScript == InitScript /\ [][NextScript]_vars

\* C1: the unlocking script of signWOTS16's chunks makes the locking script
\* of the same keypair end with a true value on top of the stack.
C1_HonestSpendIsTrue ==
    (honest /\ vm.status # "run") => EvalTrue(vm)

C1_Witness == honest /\ vm.status = "done" /\ EvalTrue(vm)

\* ------------------------------------------------------------------------
\* Where the machine stands in the locking script
\* ------------------------------------------------------------------------
InLock == vm.phase = "lock" /\ vm.pc <= Len(TheLockingScript)
ChunkOf(pc) == ((pc - 1) \div ChunkLen) + 1
OffsetOf(pc) == ((pc - 1) % ChunkLen) + 1
\* offsets, within a chunk, of the OP_DUP opening each bit block, and of OP_DROP
BlockStart(b) ==
    IF b = 0 THEN 2
    ELSE IF b = 1 THEN 2 + Len(Bit0Block)
    ELSE IF b = 2 THEN 2 + Len(Bit0Block) + Len(Bit1Block)
    ELSE IF b = 3 THEN 2 + Len(Bit0Block) + Len(Bit1Block) + Len(Bit2Block)
    ELSE Len(ChunkGadget)
DropOffset == Len(ChunkGadget)
Pow2(b) == IF b = 0 THEN 1 ELSE IF b = 1 THEN 2 ELSE IF b = 2 THEN 4
           ELSE IF b = 3 THEN 8 ELSE 16
Commitment(i) == TheKeypair.publicCommitments[i]
InRange(r) == r >= 0 /\ r <= 15

\* chunk c's comparison with its commitment has been passed
ChunkAccepted(c) ==
    /\ vm.phase = "lock"
    /\ vm.pc > c * ChunkLen
    /\ (c = TotalChunks => (vm.stack # <<>> /\ CastToBool(Top(vm.stack))))

\* C8: for a remaining value r in 0..15 the four blocks hash the pushed value
\* exactly r times in total (after blocks 0..b-1, r mod 2^b times), r stays
\* on top of the stack at every block boundary up to the final OP_DROP, and
\* after the OP_DROP exactly the hashed value is left above the later pairs.
C8_GadgetHashesExactlyRemaining ==
    (InLock /\ vm.status = "run" /\ InRange(pushedPairs[ChunkOf(vm.pc)].remaining)) =>
        LET c == ChunkOf(vm.pc)
            off == OffsetOf(vm.pc)
            r == pushedPairs[c].remaining
            v == pushedPairs[c].value
        IN  /\ \A b \in 0..4 :
                 off = BlockStart(b) =>
                    /\ vm.vfExec = <<>>
                    /\ Len(vm.stack) = 2 * (TotalChunks - c) + 2
                    /\ Top(vm.stack) = Num(r)
                    /\ Second(vm.stack) = iteratedSha256(v, r % Pow2(b))
            /\ off = DropOffset + 1 =>
                    /\ Len(vm.stack) = 2 * (TotalChunks - c) + 1
                    /\ Top(vm.stack) = iteratedSha256(v, r)
                    /\ \A i \in (c + 1)..TotalChunks :
                          /\ vm.stack[2 * (TotalChunks - i) + 1] = Num(pushedPairs[i].remaining)
                          /\ vm.stack[2 * (TotalChunks - i) + 2] = pushedPairs[i].value

\* a run in which every remaining value 0..15 has gone through the gadget
C8_Witness ==
    /\ InLock /\ vm.status = "run" /\ honest
    /\ OffsetOf(vm.pc) = DropOffset + 1
    /\ {pushedPairs[i].remaining : i \in 1..ChunkOf(vm.pc)} = 0..15
    /\ Top(vm.stack) =
          iteratedSha256(pushedPairs[ChunkOf(vm.pc)].value,
                         pushedPairs[ChunkOf(vm.pc)].remaining)

\* C6: no chunk whose pushed remaining lies outside 0..15 passes its
\* comparison with the commitment.
C6_OutOfRangeRemainingFails ==
    \A c \in 1..TotalChunks :
        ChunkAccepted(c) => InRange(pushedPairs[c].remaining)

\* hashing the pushed value `remaining` times gives the commitment
ChunkVerifies(i) ==
    /\ pushedPairs[i].remaining >= 0
    /\ BytesEqual(iteratedSha256(pushedPairs[i].value, pushedPairs[i].remaining),
               Commitment(i))

\* C7: the script ends true exactly when every chunk i has
\* H^remaining_i(value_i) = commitment_i; a failing chunk i < 67 aborts at its
\* own OP_EQUALVERIFY; only the last chunk ends in OP_EQUAL.
C7_TrueIffAllChunksVerify ==
    (vm.phase = "lock" /\ vm.status # "run") =>
        /\ EvalTrue(vm) <=> \A i \in 1..TotalChunks : ChunkVerifies(i)
        /\ vm.status = "fail" =>
              \E i \in 1..(TotalChunks - 1) :
                  /\ ~ChunkVerifies(i)
                  /\ \A j \in 1..(i - 1) : ChunkVerifies(j)
                  /\ vm.pc = i * ChunkLen
        /\ \A i \in 1..TotalChunks :
              TheLockingScript[i * ChunkLen][1] =
                  (IF i = TotalChunks THEN OP_EQUAL ELSE OP_EQUALVERIFY)

DiffersInOneByte(m1, m2) ==
    Cardinality({k \in 1..MESSAGE_BYTES : m1[k] # m2[k]}) = 1

\* C3: the signature of a message that differs in one byte from another
\* message does not satisfy the keypair's locking script.
C3_OneByteMutationIsRejected ==
    (honest /\ vm.status # "run"
        /\ \E m \in Messages : DiffersInOneByte(m, signedMessage))
    => ~EvalTrue(vm)

\* C2: an unlocking script accepted inside a transaction with output list O
\* is rejected inside a transaction with any other output list.
C2_OutputBinding ==
    (vm.status = "done" /\ EvalTrue(vm)) =>
        \A o \in OutputLists :
            o # spendTx.outputs =>
                ~EvalTrue(Evaluate(scriptSig, TheLockingScript,
                                   Tx(o, spendTx.nLockTime, spendTx.finalSequence)))

\* ------------------------------------------------------------------------
\* The servers: a vault is created, deposits fund it, sweeps spend it
\* ------------------------------------------------------------------------
NoScriptRun ==
    /\ vm = StartMachine
    /\ scriptSig = <<>>
    /\ spendTx = FirstTx
    /\ pushedPairs = <<>>
    /\ signedMessage = <<>>
    /\ honest = FALSE

Init ==
    /\ NoScriptRun
    /\ NoCalls
    /\ createdLevel = "none"
    /\ vaultUtxos = <<>>
    /\ inflight = IdleRequest
    /\ signedDigests = {}
    /\ requestsMade = 0

\* GET /api/create
CreateVault ==
    /\ createdLevel = "none"
    /\ \E level \in Levels : createdLevel' = level
    /\ UNCHANGED <<vaultUtxos, inflight, signedDigests, requestsMade, scriptVars, callVars>>

CanReceive == inflight.pc \in {"idle", "done"} /\ requestsMade < MaxRequests

ReceiveSweep ==
    /\ CanReceive
    /\ \E blob \in SecretBlobs(createdLevel), toAddress \in Addresses,
          feeRate \in RequestFeeRates :
            inflight' = SweepReceive(blob, toAddress, feeRate)
    /\ requestsMade' = requestsMade + 1
    /\ UNCHANGED <<createdLevel, vaultUtxos, signedDigests, scriptVars, callVars>>

ReceiveSweepV3 ==
    /\ CanReceive
    /\ \E blob \in SecretBlobs(createdLevel), toAddress \in Addresses,
          feeRate \in RequestFeeRates :
            inflight' = SweepV3Receive(blob, toAddress, feeRate)
    /\ requestsMade' = requestsMade + 1
    /\ UNCHANGED <<createdLevel, vaultUtxos, signedDigests, scriptVars, callVars>>

ReceiveDeposit ==
    /\ CanReceive
    /\ Len(vaultUtxos) < MaxUtxos
    /\ \E blob \in SecretBlobs(createdLevel), funding \in Fundings :
            inflight' = DepositReceive(blob, funding)
    /\ requestsMade' = requestsMade + 1
    /\ UNCHANGED <<createdLevel, vaultUtxos, signedDigests, scriptVars, callVars>>

\* getUTXOsByScriptHash answers with the vault's outputs, or with none when
\* the fetch fails
SweepGotUtxos ==
    /\ inflight.handler = "sweep" /\ inflight.pc = "utxos"
    /\ \E utxos \in {vaultUtxos, <<>>} :
          /\ inflight' = SweepBuild(inflight, utxos)
          /\ signedDigests' =
                IF inflight'.signedDigest = <<>> THEN signedDigests
                ELSE signedDigests \cup {inflight'.signedDigest}
    /\ UNCHANGED <<createdLevel, vaultUtxos, requestsMade, scriptVars, callVars>>

SweepV3GotUtxos ==
    /\ inflight.handler = "sweepV3" /\ inflight.pc = "utxos"
    /\ \E utxos \in {vaultUtxos, <<>>} : inflight' = SweepV3Build(inflight, utxos)
    /\ UNCHANGED <<createdLevel, vaultUtxos, signedDigests, requestsMade, scriptVars, callVars>>

DepositGotUtxos ==
    /\ inflight.handler = "deposit" /\ inflight.pc = "utxos"
    /\ \E utxos \in {<<inflight.funding.value>>, <<>>} :
          inflight' = DepositBuild(inflight,
                        IF inflight.funding.value = 0 THEN <<>> ELSE utxos)
    /\ UNCHANGED <<createdLevel, vaultUtxos, signedDigests, requestsMade, scriptVars, callVars>>

\* broadcastTransaction succeeds: the network took the transaction
BroadcastAccepted ==
    /\ inflight.pc = "broadcast"
    /\ IF inflight.tx.kind = "deposit"
       THEN vaultUtxos' = Append(vaultUtxos, inflight.tx.outputs[1].value)
       ELSE /\ SweepTxValid(inflight.tx, createdLevel, vaultUtxos)
            /\ vaultUtxos' = SubSeq(vaultUtxos, inflight.tx.spent + 1, Len(vaultUtxos))
    /\ inflight' = [inflight EXCEPT !.pc = "done", !.sent = TRUE, !.success = TRUE]
    /\ UNCHANGED <<createdLevel, signedDigests, requestsMade, scriptVars, callVars>>

\* every broadcast attempt fails: the network refused, or was not reached
BroadcastFailed ==
    /\ inflight.pc = "broadcast"
    /\ inflight' = [inflight EXCEPT !.pc = "done", !.sent = TRUE, !.success = FALSE,
                                    !.error = "All broadcast attempts failed"]
    /\ UNCHANGED <<createdLevel, vaultUtxos, signedDigests, requestsMade, scriptVars, callVars>>

Next ==
    \/ CreateVault
    \/ ReceiveSweep
    \/ ReceiveSweepV3
    \/ ReceiveDeposit
    \/ SweepGotUtxos
    \/ SweepV3GotUtxos
    \/ DepositGotUtxos
    \/ BroadcastAccepted
    \/ BroadcastFailed

Spec == Init /\ [][Next]_vars

\* ------------------------------------------------------------------------
\* Properties of the servers
\* ------------------------------------------------------------------------
CorruptedSecret == "Corrupted secret: public key hash mismatch"

\* the stored publicKeyHash of the request's secret is not the hash
\* recomputed from its privateKey scalars
HashMismatch(blob) ==
    /\ blob # NoBlob
    /\ ~Missing(DecodeSecret(blob).privateKey)
    /\ ~Missing(DecodeSecret(blob).publicKeyHash)
    /\ Len(DecodeSecret(blob).privateKey) = CHUNKS
    /\ ~BytesEqual(Restore(blob).keypair.publicKeyHash, DecodeSecret(blob).publicKeyHash)

\* C9: restoreVaultFromSecret throws 'Corrupted secret' for every secret whose
\* stored publicKeyHash differs from the recomputed one, and a sweep or
\* deposit request carrying such a secret ends with that error without
\* building, signing or broadcasting anything.
C9_RestoreFailsClosed ==
    (inflight.pc # "idle" /\ HashMismatch(inflight.secretBlob)) =>
        /\ Restore(inflight.secretBlob).error = CorruptedSecret
        /\ ~inflight.built /\ ~inflight.sent
        /\ inflight.signedDigest = <<>> /\ inflight.tx = NoTx
        /\ inflight.pc \in {"done"} /\ ~inflight.success
        /\ inflight.restoreCalled => inflight.error = CorruptedSecret

C9_Witness ==
    /\ inflight.handler = "deposit" /\ inflight.pc = "done"
    /\ inflight.restoreCalled
    /\ HashMismatch(inflight.secretBlob)
    /\ inflight.secretBlob.variant = "key"
    /\ inflight.error = CorruptedSecret

\* C4: signWOTS16 is given at most one distinct digest with the scalars of
\* the vault, whatever sweep requests are made with the vault's secret.
C4_OneDigestSigned == Cardinality(signedDigests) <= 1

\* C5: the transaction POST /api/sweep builds from the secret a vault was
\* created with makes that vault's locking script evaluate to true, and an
\* ultimate vault's sweep goes through the WOTS-16 signer.
C5_SweepSpendsEveryVault ==
    (inflight.handler = "sweep" /\ inflight.pc = "broadcast"
        /\ inflight.secretBlob.variant = "created") =>
        /\ EvalTrue(Evaluate(inflight.tx.scriptSig, VaultOf(createdLevel).lockingScript,
                    Tx(inflight.tx.outputs, inflight.tx.nLockTime,
                       inflight.tx.finalSequence)))
        /\ createdLevel = "ultimate" => inflight.signedDigest # <<>>

\* the stored WOTS-16 public material is not what the private scalars give
Wots16Mismatch(w) ==
    /\ w.present
    /\ \/ \E i \in 1..TotalChunks :
            ~BytesEqual(w.publicCommitments[i],
                        iteratedSha256(w.privateScalars[i], WOTS16_COMMIT_HASHES))
       \/ ~BytesEqual(w.publicKeyHash,
                      sha256(Concat([i \in 1..TotalChunks |->
                          iteratedSha256(w.privateScalars[i], WOTS16_COMMIT_HASHES)])))

\* C10: a request whose ultimate-tier secret stores WOTS-16 public material
\* that does not match the private scalars is rejected as corrupted, and
\* nothing is built or signed for it.
C10_StoredPublicMaterialRejected ==
    (inflight.restoreCalled /\ inflight.secretBlob.level = "ultimate"
        /\ Wots16Mismatch(DecodeSecret(inflight.secretBlob).wots16)) =>
        /\ Restore(inflight.secretBlob).error = CorruptedSecret
        /\ ~inflight.built /\ inflight.signedDigest = <<>>

\* the request carries the secret exactly as createQuantumVault returned it
CreatedSecretRestored ==
    /\ inflight.restoreCalled
    /\ inflight.secretBlob.variant = "created"

\* C11: restoreVaultFromSecret(vault.secret).publicKeyHash is the
\* publicKeyHash createQuantumVault returned for the vault, at every
\* security level.
C11_RoundTripPublicKeyHash ==
    CreatedSecretRestored =>
        /\ Restore(inflight.secretBlob).error = ""
        /\ BytesEqual(Restore(inflight.secretBlob).publicKeyHash,
                      VaultOf(inflight.secretBlob.level).publicKeyHash)

\* ------------------------------------------------------------------------
\* The standard sweep builders
\* ------------------------------------------------------------------------
\* the request went to a standard builder with the vault's unspent outputs
StandardBuilderRan ==
    /\ inflight.handler \in {"sweep", "sweepV3"}
    /\ inflight.restoreCalled /\ ~inflight.sent
    /\ inflight.pc \in {"broadcast", "done"}
    /\ Restore(inflight.secretBlob).error = ""
    /\ (inflight.handler = "sweep" =>
            inflight.secretBlob.variant \notin {"covenant", "covenantCommitments"})
    /\ TotalInput(vaultUtxos) >= MIN_SWEEP
    /\ inflight.error # "No funds in vault"
    /\ inflight.error # "No funds found in vault"

\* bytes the builder of the handler estimates for one input
StandardInputSize(handler) ==
    IF handler = "sweep" THEN 32 + 4 + 3 + (3 + CHUNKS * 32) + 4
    ELSE 32 + 4 + 1 + (2 + CHUNKS * 32) + 4

\* F = ceil(estimatedSize * feeRate) of the request in flight
StandardFee ==
    ((4 + 1 + 1 + 4) + Len(vaultUtxos) * StandardInputSize(inflight.handler)
        + (8 + 1 + 25)) * RateOf(inflight.feeRate)

C13_BadChecksumRejected ==
    (inflight.handler \in {"sweep", "sweepV3"}
        /\ inflight.toAddress # NoAddress
        /\ ~inflight.toAddress.checksumOk) =>
        /\ ~inflight.built /\ ~inflight.sent
        /\ inflight.tx = NoTx
        /\ inflight.pc \in {"utxos", "done"}
        /\ inflight.pc = "done" => (~inflight.success /\ inflight.error # "")


\* ------------------------------------------------------------------------
\* The covenant sweep of part_000
\* ------------------------------------------------------------------------
\* buildWOTS16CovenantTransaction has returned a transaction for the request
\* in flight, and the vault's outputs are still those it was given
CovenantBuilt ==
    /\ inflight.handler = "sweep" /\ inflight.built /\ ~inflight.sent
    /\ inflight.signedDigest # <<>>

FieldNames(fields) == [i \in 1..Len(fields) |-> fields[i].name]
FieldSizes(fields) == [i \in 1..Len(fields) |-> fields[i].size]

\* C14: the preimage signed with the covenant key is, in this order, the
\* version, hashPrevouts over all inputs, hashSequence over all inputs, the
\* outpoint spent, the length-prefixed locking script, the value of the
\* spent output, the input's sequence, hashOutputs, the lock time and the
\* sighash type 0x41, with the widths 4, 32, 32, 36, varint, n, 8, 4, 32, 4,
\* 4; its sequence and lock time are those of the raw transaction.
C14_PreimageFieldOrder ==
    CovenantBuilt =>
        LET p == inflight.tx.preimage
            n == ScriptSize(DecodeSecret(inflight.secretBlob).lockingScript)
        IN  /\ FieldNames(p) =
                 <<"nVersion", "hashPrevouts", "hashSequence", "outpoint",
                   "scriptCodeLen", "scriptCode", "value", "sequence",
                   "hashOutputs", "nLocktime", "sighashType">>
            /\ FieldSizes(p) =
                 <<4, 32, 32, 36, encodeVarIntSize(n), n, 8, 4, 32, 4, 4>>
            /\ p[1].value = 1
            /\ p[2].value = [i \in 1..inflight.tx.spent |-> i]
            /\ p[3].value = [i \in 1..inflight.tx.spent |-> <<255, 255, 255, 255>>]
            /\ p[4].value = 1
            /\ p[5].value = n
            /\ p[7].value = vaultUtxos[1]
            /\ p[8].value = <<255, 255, 255, 255>> /\ inflight.tx.finalSequence
            /\ p[9].value = hash256Outputs(inflight.tx.outputs)
            /\ p[10].value = inflight.tx.nLockTime
            /\ p[11].value = 65
            /\ ByteLength(inflight.tx.scriptSig[1][2]) = 156 + encodeVarIntSize(n) + n

C14_Witness ==
    /\ CovenantBuilt /\ inflight.pc = "broadcast"
    /\ Len(inflight.tx.preimage) = 11
    /\ inflight.tx.preimage[7].value = vaultUtxos[1]

\* the WOTS-16 keypair the request's secret holds
SecretWots16Keypair == DecodeSecret(inflight.secretBlob).wots16

\* C15: the message signWOTS16 signs is hash256 of the serialized output
\* list; it is the hashOutputs field of the preimage, and it is taken over
\* the one output, value and script, that the raw transaction carries.
C15_SignedDigestIsHashOutputs ==
    CovenantBuilt =>
        /\ Len(inflight.tx.outputs) = 1
        /\ inflight.signedDigest = hash256Outputs(inflight.tx.outputs)
        /\ inflight.tx.preimage[9].name = "hashOutputs"
        /\ inflight.tx.preimage[9].value = inflight.signedDigest
        /\ SubSeq(inflight.tx.scriptSig, 3, Len(inflight.tx.scriptSig)) =
              buildWOTS16UnlockingScript(
                  signWOTS16(SecretWots16Keypair,
                             hash256Outputs(inflight.tx.outputs)))

C15_Witness ==
    /\ CovenantBuilt /\ inflight.pc = "broadcast"
    /\ inflight.signedDigest = hash256Outputs(inflight.tx.outputs)
    /\ inflight.tx.outputs[1].dest = 2

\* the pushes of script are the signature, the preimage, then the 68 pairs
SignatureFirstOrder(script) ==
    /\ Len(script) = 2 + 2 * TotalChunks
    /\ Tag(script[1][2]) = 4
    /\ Tag(script[2][2]) = 8
    /\ \A i \in 1..TotalChunks :
          /\ script[2 * i + 1][1] \in {OP_0} \cup (OP_BASE + 1)..OP_16
          /\ script[2 * i + 2][1] = OP_PUSH32

\* C16: a covenant-tier unlocking script pushes the covenant signature
\* first, then the sighash preimage, then the 68 WOTS-16 chunk pairs, in
\* the sweep of part_000 and in the library's builder alike.
C16_SignaturePreimageChunks ==
    CovenantBuilt =>
        /\ SignatureFirstOrder(inflight.tx.scriptSig)
        /\ SignatureFirstOrder(
              buildWOTS16UnlockingScriptWithCovenant(
                  signWOTS16(SecretWots16Keypair, inflight.signedDigest),
                  inflight.tx.scriptSig[1][2], inflight.tx.scriptSig[2][2]))


\* ------------------------------------------------------------------------
\* The signer and its unlocking script
\* ------------------------------------------------------------------------
\* the unlocking script of an honest signature has just been run
UnlockPushed == honest /\ vm.phase = "lock" /\ vm.pc = 1 /\ vm.status = "run"

\* C17: buildWOTS16UnlockingScript emits pushes only, for chunks 67 down to
\* 0, each as push(remaining) then push(32-byte value); once they have run,
\* chunk 0's value is on top, its remaining beneath it, and the pair of
\* chunk i+1 lies directly beneath the pair of chunk i.
C17_PushOrder ==
    honest =>
        /\ Len(scriptSig) = 2 * TotalChunks
        /\ \A k \in 1..Len(scriptSig) : IsPushOp(scriptSig[k][1])
        /\ UnlockPushed =>
             LET chunks == signWOTS16(TheKeypair, signedMessage).chunks
             IN  /\ Len(vm.stack) = 2 * TotalChunks
                 /\ vm.vfExec = <<>>
                 /\ \A i \in 1..TotalChunks :
                       /\ scriptSig[2 * (TotalChunks - i) + 2] =
                             <<OP_PUSH32, chunks[i].value>>
                       /\ ByteLength(chunks[i].value) = 32
                       /\ vm.stack[2 * (TotalChunks - i) + 2] = chunks[i].value
                       /\ vm.stack[2 * (TotalChunks - i) + 1] = Num(chunks[i].remaining)

C17_Witness ==
    /\ UnlockPushed
    /\ Top(vm.stack) = signWOTS16(TheKeypair, signedMessage).chunks[1].value
    /\ Second(vm.stack) = Num(pushedPairs[1].remaining)
    /\ pushedPairs[1].remaining # pushedPairs[2].remaining

\* signedMessage has been signed and the pushes of its signature are running
JustSigned == honest /\ vm.phase = "unlock"

\* sum of 15 - nibble over the bytes from k on
RECURSIVE ComplementSum(_, _)
ComplementSum(bytes, k) ==
    IF k > Len(bytes) THEN 0
    ELSE (15 - (bytes[k] \div 16)) + (15 - (bytes[k] % 16)) + ComplementSum(bytes, k + 1)

\* C18: digit 2k is the high nibble of byte k and digit 2k+1 its low nibble,
\* the 64 message digits come before the 4 checksum digits, and checksum
\* digit j is bits 4j..4j+3 of the accumulated sum.
C18_NibbleDecomposition ==
    JustSigned =>
        LET d == signWOTS16(TheKeypair, signedMessage).messageChunks
            sum == ComplementSum(signedMessage, 1)
        IN  /\ Len(d) = 68
            /\ \A k \in 0..31 :
                  /\ d[2 * k + 1] = signedMessage[k + 1] \div 16
                  /\ d[2 * k + 2] = signedMessage[k + 1] % 16
            /\ \A j \in 0..3 : d[64 + j + 1] = (sum \div (16 ^ j)) % 16

\* a signed message with a byte whose two nibbles differ
C18_Witness ==
    /\ JustSigned /\ vm.pc = 2
    /\ \E k \in 1..32 : signedMessage[k] \div 16 # signedMessage[k] % 16
    /\ signWOTS16(TheKeypair, signedMessage).messageChunks[65] # 0

\* C19: the checksum is the sum of 15 - nibble over the 64 message nibbles,
\* its four digits are that sum modulo 65536, and the all-zero message has
\* the sum 960 and the checksum digits 0, 12, 3, 0.
C19_ChecksumLaw ==
    JustSigned =>
        LET d == signWOTS16(TheKeypair, signedMessage).messageChunks
            sum == ComplementSum(signedMessage, 1)
        IN  /\ \A j \in 65..68 : d[j] \in 0..15
            /\ d[65] + 16 * d[66] + 256 * d[67] + 4096 * d[68] = sum % 65536
            /\ (\A k \in 1..32 : signedMessage[k] = 0) =>
                  /\ sum = 960
                  /\ <<d[65], d[66], d[67], d[68]>> = <<0, 12, 3, 0>>

\* the all-zero message has been signed
C19_Witness ==
    /\ JustSigned /\ vm.pc = 3
    /\ \A k \in 1..32 : signedMessage[k] = 0
    /\ pushedPairs[66].remaining = 3

KeypairIsFifteenFold ==
    /\ Len(TheKeypair.privateScalars) = 68
    /\ Len(TheKeypair.publicCommitments) = 68
    /\ \A i \in 1..68 :
          /\ TheKeypair.publicCommitments[i] =
                iteratedSha256(TheKeypair.privateScalars[i], 15)
          /\ TheKeypair.publicCommitments[i] #
                iteratedSha256(TheKeypair.privateScalars[i], 16)
          /\ TheLockingScript[i * ChunkLen - 1] =
                <<OP_PUSH32, iteratedSha256(TheKeypair.privateScalars[i], 15)>>

StandardVaultSwept ==
    /\ inflight.handler \in {"sweep", "sweepV3"}
    /\ inflight.built
    /\ createdLevel = "standard"
    /\ inflight.secretBlob.variant = "created"

\* the locking script of a standard vault: 0xa8, 0x20, the 32-byte hash, 0x87
StandardScriptShape(script) ==
    /\ Len(script) = 3
    /\ script[1][1] = 168
    /\ script[2][1] = 32 /\ ByteLength(script[2][2]) = 32
    /\ script[3][1] = 135
    /\ ScriptSize(script) = 35

\* C22 as stated: the locking script of a standard vault is the 35 bytes
\* OP_SHA256, push-32, publicKeyHash, OP_EQUAL, and the unlocking script is
\* exactly the 32-byte preimage whose SHA-256 is the embedded hash.
C22_Preimage32Bytes ==
    StandardVaultSwept =>
        /\ StandardScriptShape(VaultOf("standard").lockingScript)
        /\ Len(inflight.tx.scriptSig) = 1
        /\ ByteLength(inflight.tx.scriptSig[1][2]) = 32
        /\ BytesEqual(sha256(inflight.tx.scriptSig[1][2]),
                      VaultOf("standard").lockingScript[2][2])

\* C22 amended: the locking script of a standard vault is the 35 bytes
\* OP_SHA256, push-32, publicKeyHash, OP_EQUAL, and the unlocking script is
\* one OP_PUSHDATA2 push of the 1024-byte concatenation of the 32 public
\* commitments, whose SHA-256 is the embedded hash.
C22_Preimage1024Bytes ==
    StandardVaultSwept =>
        /\ StandardScriptShape(VaultOf("standard").lockingScript)
        /\ VaultOf("standard").lockingScript[2][2] = VaultOf("standard").publicKeyHash
        /\ Len(inflight.tx.scriptSig) = 1
        /\ inflight.tx.scriptSig[1][1] = 77
        /\ ByteLength(inflight.tx.scriptSig[1][2]) = 1024
        /\ ScriptSize(inflight.tx.scriptSig) = 1027
        /\ inflight.tx.scriptSig[1][2] =
              Concat(Restore(inflight.secretBlob).keypair.commitments)
        /\ Len(Restore(inflight.secretBlob).keypair.commitments) = 32
        /\ BytesEqual(sha256(inflight.tx.scriptSig[1][2]),
                      VaultOf("standard").lockingScript[2][2])

C22_Witness ==
    /\ StandardVaultSwept
    /\ inflight.pc = "done" /\ inflight.success
    /\ ByteLength(inflight.tx.scriptSig[1][2]) = 1024


ServerUntouched ==
    UNCHANGED <<scriptVars, serverVars, encoding, lockedVault>>

InitBroadcast ==
    /\ NoScriptRun
    /\ createdLevel = "none"
    /\ vaultUtxos = <<>>
    /\ inflight = IdleRequest
    /\ signedDigests = {}
    /\ requestsMade = 0
    /\ encoding = NoEncoding /\ lockedVault = NoLockedVault
    /\ \E keys \in TaalKeyLists : broadcast = StartBroadcast(keys)

\* if (!key || key.includes('PLACEHOLDER')) continue
SkipTaalKey ==
    /\ broadcast.pc = "taal"
    /\ broadcast.keys[broadcast.key] # "key"
    /\ broadcast' = AfterKey(broadcast)
    /\ ServerUntouched

TryTaal ==
    /\ broadcast.pc = "taal"
    /\ broadcast.keys[broadcast.key] = "key"
    /\ \E outcome \in ProviderOutcomes : broadcast' = broadcastViaTaal(broadcast, outcome)
    /\ ServerUntouched

TryGorillaPool ==
    /\ broadcast.pc = "gorilla"
    /\ \E outcome \in ProviderOutcomes :
          broadcast' = broadcastViaGorillaPool(broadcast, outcome)
    /\ ServerUntouched

\* WhatsOnChain answers 2xx with the transaction id only
TryWhatsOnChain ==
    /\ broadcast.pc = "woc"
    /\ \E outcome \in {"accept", "throw"} :
          broadcast' = broadcastViaWhatsOnChain(broadcast, outcome)
    /\ ServerUntouched

NextBroadcast == SkipTaalKey \/ TryTaal \/ TryGorillaPool \/ TryWhatsOnChain

SpecBroadcast == InitBroadcast /\ [][NextBroadcast]_vars

Reported(b, attempt) ==
    \E j \in 1..Len(b.error) :
        b.error[j] = ErrorOf(attempt.provider, attempt.key)

\* C24: when broadcastTransaction returns success: false its error text
\* holds one failure reason for every provider that was attempted, whether
\* the provider threw or answered with a non-success response; the function
\* never throws, and success: true names the first provider that accepted.
C24_EveryFailureReported ==
    /\ ~broadcast.threw
    /\ (broadcast.returned /\ ~broadcast.success) =>
          /\ Len(broadcast.error) = Len(broadcast.attempted)
          /\ \A i \in 1..Len(broadcast.attempted) :
                Reported(broadcast, broadcast.attempted[i])
    /\ (broadcast.returned /\ broadcast.success) =>
          LET n == Len(broadcast.attempted)
          IN  /\ n >= 1
              /\ broadcast.attempted[n].outcome = "accept"
              /\ broadcast.attempted[n].provider = broadcast.via
              /\ \A i \in 1..(n - 1) : broadcast.attempted[i].outcome # "accept"


\* ------------------------------------------------------------------------
\* encodeLocktimeForScript alone: the lock time is encoded, and the buffer
\* is read the way the script engine reads it
\* ------------------------------------------------------------------------
LockTimeHalvesHi == <<0, 1, 127, 128, 255, 256, 32767, 32768, 40000, 65535>>
LockTimeHalvesLo == <<0, 1, 16, 17, 127, 128, 255, 256, 32767, 32768, 65535>>

InitLocktime ==
    /\ NoScriptRun
    /\ createdLevel = "none"
    /\ vaultUtxos = <<>>
    /\ inflight = IdleRequest
    /\ signedDigests = {}
    /\ requestsMade = 0
    /\ broadcast = NoBroadcast /\ lockedVault = NoLockedVault
    /\ \E h \in 1..NumLockTimeHi, l \in 1..NumLockTimeLo :
          /\ LockTimeHalvesHi[h] > 0 \/ LockTimeHalvesLo[l] > 0
          /\ encoding = [NoEncoding EXCEPT !.pc = "called",
                                           !.hi = LockTimeHalvesHi[h],
                                           !.lo = LockTimeHalvesLo[l]]

EncodeLocktime ==
    /\ encoding.pc = "called"
    /\ encoding' = [encoding EXCEPT !.pc = "encoded",
                        !.buffer = encodeLocktimeBuffer(encoding.hi, encoding.lo)]
    /\ UNCHANGED <<scriptVars, serverVars, broadcast, lockedVault>>

ReadLocktime ==
    /\ encoding.pc = "encoded"
    /\ encoding' = [encoding EXCEPT !.pc = "read",
                        !.read = ReadLocktimeBuffer(encoding.buffer)]
    /\ UNCHANGED <<scriptVars, serverVars, broadcast, lockedVault>>

NextLocktime == EncodeLocktime \/ ReadLocktime

SpecLocktime == InitLocktime /\ [][NextLocktime]_vars

\* the data of a push is the shortest little-endian form of a number: no
\* zero byte at the end, but for the pad after a byte with the top bit set
MinimalScriptNum(data) ==
    /\ Len(data) >= 1
    /\ data[Len(data)] # 128
    /\ data[Len(data)] = 0 => (Len(data) >= 2 /\ data[Len(data) - 1] >= 128)

\* C26: encodeLocktimeForScript is exact on 1 .. 2^32 - 1: OP_1 .. OP_16 for
\* 1..16, and from 17 on a direct push of the minimal little-endian script
\* number, padded with 0x00 when the top bit of the last byte is set, which
\* the script engine reads back as the lock time.
C26_LocktimeEncodingExact ==
    encoding.pc = "read" =>
        /\ encoding.read.isNumber
        /\ ~encoding.read.negative /\ ~encoding.read.wide
        /\ encoding.read.hi = encoding.hi /\ encoding.read.lo = encoding.lo
        /\ (encoding.hi = 0 /\ encoding.lo <= 16) =>
              encoding.buffer = <<OP_BASE + encoding.lo>>
        /\ (encoding.hi > 0 \/ encoding.lo > 16) =>
              /\ encoding.buffer[1] = Len(encoding.buffer) - 1
              /\ encoding.buffer[1] <= 5
              /\ MinimalScriptNum(Tail(encoding.buffer))


\* ------------------------------------------------------------------------
\* Time-locked vaults: createQuantumVault is called with a lock time, the
\* sweep flow builds the spend of the vault's output, and the script engine
\* evaluates it
\* ------------------------------------------------------------------------
RequestedLockTimes == <<0, 1, 16, 17, 500, 700000, 600000000>>

RECURSIVE LockedVaultsOver(_, _)
LockedVaultsOver(levels, n) ==
    IF levels = {} THEN <<>>
    ELSE IF n = 0
    THEN LockedVaultsOver(levels \ {CHOOSE x \in levels : TRUE}, NumLockTimes)
    ELSE LET l == CHOOSE x \in levels : TRUE
         IN  (<<l, RequestedLockTimes[n]>> :> createQuantumVault(l, RequestedLockTimes[n], 1))
                @@ LockedVaultsOver(levels, n - 1)
LockedVaults == LockedVaultsOver(Levels, NumLockTimes)
TheLockedVault == LockedVaults[<<lockedVault.securityLevel, lockedVault.lockTime>>]

LockedUtxos == <<FundingValues[2]>>
LockedDestination == Address(TRUE, TRUE, 1)

InitTimelock ==
    /\ vm = StartMachine
    /\ scriptSig = <<>>
    /\ spendTx = FirstTx
    /\ pushedPairs = <<>>
    /\ signedMessage = <<>>
    /\ honest = FALSE
    /\ createdLevel = "none"
    /\ vaultUtxos = <<>>
    /\ inflight = IdleRequest
    /\ signedDigests = {}
    /\ requestsMade = 0
    /\ broadcast = NoBroadcast /\ encoding = NoEncoding
    /\ \E level \in Levels, n \in 1..NumLockTimes :
          lockedVault = [pc |-> "created", securityLevel |-> level,
                         lockTime |-> RequestedLockTimes[n]]

\* the sweep of a vault that is not a covenant vault, by either server
SweepLockedWith(result) ==
    /\ lockedVault' = [lockedVault EXCEPT !.pc = IF result.error = "" THEN "swept" ELSE "failed"]
    /\ scriptSig' = result.tx.scriptSig
    /\ spendTx' = Tx(result.tx.outputs, result.tx.nLockTime, result.tx.finalSequence)

SweepLockedVault ==
    /\ lockedVault.pc = "created"
    /\ \E server \in {"part_000", "server.js"} :
          LET restored == restoreVaultFromSecret(TheLockedVault.secret)
          IN  SweepLockedWith(
                IF restored.error # ""
                THEN [error |-> restored.error, signedDigest |-> <<>>, tx |-> NoTx]
                ELSE IF server = "part_000"
                THEN buildStandardSweepTransaction(LockedUtxos, restored,
                        LockedDestination, FEE_RATE_STANDARD)
                ELSE buildSweepTransaction(LockedUtxos, restored,
                        LockedDestination, FEE_RATE_STANDARD))
    /\ UNCHANGED <<vm, pushedPairs, signedMessage, honest, serverVars, broadcast, encoding>>

\* the script engine executes one instruction of the spend
ExecLockedSpend ==
    /\ lockedVault.pc = "swept"
    /\ vm.status = "run"
    /\ vm' = Step(vm, scriptSig, TheLockedVault.lockingScript, spendTx)
    /\ UNCHANGED <<scriptSig, spendTx, pushedPairs, signedMessage, honest,
                   serverVars, callVars>>

NextTimelock == SweepLockedVault \/ ExecLockedSpend

SpecTimelock == InitTimelock /\ [][NextTimelock]_vars

\* the script begins with <lockTime> OP_CHECKLOCKTIMEVERIFY OP_DROP
HasTimelockGuard(script, lockTime) ==
    /\ Len(script) >= 3
    /\ script[1] = encodeLocktimeForScript(lockTime)
    /\ script[2] = Ins(OP_CHECKLOCKTIMEVERIFY)
    /\ script[3] = Ins(OP_DROP)

\* C25: for a vault whose locking script begins with the time-lock guard,
\* the transaction the sweep flow builds has nLockTime >= the vault's lock
\* time and a non-final input sequence, so that the guard passes.
C25_TimelockedSweepPassesGuard ==
    (/\ lockedVault.pc = "swept"
     /\ HasTimelockGuard(TheLockedVault.lockingScript, TheLockedVault.lockTime)) =>
        /\ spendTx.nLockTime >= TheLockedVault.lockTime
        /\ ~spendTx.finalSequence
        /\ (vm.phase = "lock" /\ vm.pc <= 3) => vm.status # "fail"

\* C28: a vault returned with lockTime > 0 and an unlockInfo has a locking
\* script that begins with the push of that lock time, OP_CHECKLOCKTIMEVERIFY
\* and OP_DROP, whatever the securityLevel; a vault returned with lockTime 0
\* has no guard and no unlockInfo.
C28_ReportedLockMatchesScript ==
    lockedVault.pc # "idle" =>
        /\ (TheLockedVault.lockTime > 0 /\ TheLockedVault.unlockInfo # NoUnlockInfo) =>
              HasTimelockGuard(TheLockedVault.lockingScript, TheLockedVault.lockTime)
        /\ TheLockedVault.lockTime = 0 =>
              /\ TheLockedVault.unlockInfo = NoUnlockInfo
              /\ \A i \in 1..Len(TheLockedVault.lockingScript) :
                    TheLockedVault.lockingScript[i] # Ins(OP_CHECKLOCKTIMEVERIFY)


\* the values of the unspent outputs that are inputs of the transaction
SpentValue(tx, utxos) == TotalInput(SubSeq(utxos, 1, tx.spent))

\* C27: value conservation.  For every transaction a sweep builder returned,
\* whatever the fee rate of the request and the number of unspent outputs,
\* the output value is at most the sum of the values of the outputs that
\* are inputs of the transaction, and the reported inputValue is that sum.
C27_ValueConservation ==
    (inflight.handler \in {"sweep", "sweepV3"} /\ inflight.pc = "broadcast") =>
        /\ inflight.tx.spent >= 1 /\ inflight.tx.spent <= Len(vaultUtxos)
        /\ inflight.tx.outputs[1].value <= SpentValue(inflight.tx, vaultUtxos)
        /\ inflight.tx.inputValue = SpentValue(inflight.tx, vaultUtxos)


\* the digit signWOTS16 revealed for chunk i: the scalar hashed that often
RevealedDigit(i) == 15 - pushedPairs[i].remaining

\* C29: the checksum makes the digit sequences incomparable.  For the
\* message that was signed and any other message, some chunk of the other
\* message has a smaller digit than the one revealed, so the revealed values
\* cannot be hashed forward into a signature of the other message.
C29_DigitsIncomparable ==
    (honest /\ vm.phase = "unlock") =>
        \A other \in Messages \ {signedMessage} :
            \E i \in 1..TotalChunks : AllChunks(other)[i] < RevealedDigit(i)

\* a signed message every nibble of which is at most that of another
\* message: only the checksum digits tell them apart
C29_Witness ==
    /\ honest /\ vm.phase = "unlock" /\ vm.pc = 2
    /\ \E other \in Messages \ {signedMessage} :
          /\ \A i \in 1..WOTS16_CHUNKS :
                MessageChunk(other, i) >= RevealedDigit(i)
          /\ \E i \in (WOTS16_CHUNKS + 1)..TotalChunks :
                AllChunks(other)[i] < RevealedDigit(i)


\* the size estimate the fee of the transaction in flight was computed from
EstimatedSize == inflight.tx.fee \div RateOf(inflight.feeRate)

\* C30: the fee covers the real size.  For every sweep builder and every
\* number of inputs, the size estimate the fee is computed from is not
\* smaller than the byte length of the raw transaction returned, so that
\* fee >= feeRate * size.
C30_EstimateCoversSize ==
    (inflight.handler \in {"sweep", "sweepV3"} /\ inflight.pc = "broadcast") =>
        /\ inflight.tx.fee = EstimatedSize * RateOf(inflight.feeRate)
        /\ EstimatedSize >= inflight.tx.size
        /\ inflight.tx.fee >= RateOf(inflight.feeRate) * inflight.tx.size

=============================================================================
